---- MODULE Spec2Model ----
(***************************************************************************)
(* A model of the DingTalk request layer of xy_dingtalk:                   *)
(*   - DingRequest.refresh_token / latest_token / get_token and the token  *)
(*     store they use (src/common/ding_request.py), checked under Spec;    *)
(*   - Department.get_ding_server_depart_tree, the recursive concurrent    *)
(*     fetch of the department id tree (src/models/department.py), run on  *)
(*     an asyncio event loop, checked under TreeSpec.                      *)
(***************************************************************************)
EXTENDS Integers, Sequences, FiniteSets, TLC

\* ------------------------------------------------------------------ bounds

\* The clock runs from 0 to MaxTime.
MaxTime == 3
\* The provider answers an exchange with expires_in in 1..MaxExpiresIn.
MaxExpiresIn == 2
\* The latest_token calls made in one run, all callers together.
MaxCalls == 2

\* The departments of the remote directory are numbered 1..MaxDept.
MaxDept == 3
\* The longest list of root ids handed to get_ding_server_depart_tree.
MaxRoots == 2
\* The clock steps at most this many times while a tree fetch runs.
MaxTreeTicks == 1

\* Application identities (app_key of a DingRequest).
AppKeys == {"k1", "k2"}
\* Coroutines that call latest_token, each through a DingRequest of its own.
Callers == {"c1", "c2"}

\* "No token": what TokenStore.get() answers when it has nothing usable
\* (None in the source). Issued tokens are numbered from 1.
None == 0
NoCred == [token |-> None, expires_at |-> 0]

VARIABLES
    now,        \* the wall clock
    store,      \* the token stores: store slot -> credential (token, expires_at)
    issued,     \* provider side: the exchanges answered with errcode 0, in order;
                \* issued[i] is the exchange that issued token i
    lastOk,     \* per app key: the last successful exchange refresh_token saved
    pc,         \* per caller: where it stands in latest_token
    cur,        \* per caller: the record of the call in progress
    last,       \* per caller: the record of its last completed call
    ncalls      \* the latest_token calls started so far

VARIABLES
    dir,        \* the remote directory: department id -> its sub-ids, as
                \* department_listsubid answers them
    roots,      \* the dep_ids of the top-level get_ding_server_depart_tree call
    tasks,      \* the _append_to_tree tasks, by path (position in each dep_ids)
    frames,     \* the get_ding_server_depart_tree calls awaiting their gather,
                \* by the path of the task that made them (<<>>: the top-level call)
    ready,      \* the event loop's queue of callbacks ready to run, in order
    cbLog,      \* the ids for_in_callback was called with, in order
    result      \* how the top-level call ended, and the tree it returned

VARIABLES
    call,       \* one call of a DingRequest operation: the operation, where it
                \* stands, the requests it has sent, the response and the outcome
    members,    \* the remote member listing: department id -> its pages
    db,         \* the records of the database, and the writes made in order
    stasks,     \* the _sync_dep tasks, by path (position in the depart_tree)
    sframes,    \* the gathers of _sync_dep tasks being awaited, by the path of
                \* the task that made them (<<>>: sync_ding_department)
    pass        \* the sync_ding_organization pass: its phase, is_success, the
                \* dingtalk.log records created and the end notifications sent

callerVars == <<pc, cur, last, ncalls>>
syncVars == <<members, db, stasks, sframes>>
extVars == <<call, members, db, stasks, sframes, pass>>
tokVars == <<now, store, issued, lastOk, pc, cur, last, ncalls>>
treeVars == <<dir, roots, tasks, frames, ready, cbLog, result>>

\* ------------------------------------------------------- the token store

\* The store a DingRequest built for app_key uses: TokenStore(app_key).
SharedTokenStore(app_key) == "k1"
token_store(app_key) == app_key

\* TokenStore.get(): the cached token while it is unexpired, else absent.
TokenGet(st, slot, t) ==
    IF st[slot].token # None /\ t < st[slot].expires_at
    THEN st[slot].token ELSE None

\* TokenStore.save(token, expires_in): overwrite the slot unconditionally.
TokenSave(st, slot, token, expires_in, t) ==
    [st EXCEPT ![slot] = [token |-> token, expires_at |-> t + expires_in]]

\* ------------------------------------------------------- the provider

\* A gettoken response: errcode 0 with a fresh token and its lifetime, or a
\* non-zero errcode (40089: invalid appkey or appsecret) and no token.
OkResponse(expires_in) ==
    [errcode |-> 0, access_token |-> Len(issued) + 1, expires_in |-> expires_in]
ErrResponse == [errcode |-> 40089, access_token |-> None, expires_in |-> 0]
TokenResponses == {OkResponse(e) : e \in 1..MaxExpiresIn} \cup {ErrResponse}

\* check_response_error(response): TRUE when it raises.
CheckNeverRaises(response) == FALSE
check_response_error(response) == response.errcode # 0

\* refresh_token, line 56: current_token = self.token_store.get().
StaleGet(st, app_key, t) == st[token_store(app_key)].token
refresh_token_get(st, app_key, t) == TokenGet(st, token_store(app_key), t)

\* refresh_token, line 57: `if not current_token`.
AlwaysRefresh(current_token) == TRUE
NeedsRefresh(current_token) == current_token = None

\* refresh_token, line 59: self.token_store.save(token['token'], token['expires_in']).
SkipSave(st, app_key, token, t) == st
TornSave(st, app_key, token, t) ==
    [st EXCEPT ![token_store(app_key)] =
        [token |-> token.token,
         expires_at |-> IF @.token = None THEN t + token.expires_in
                                          ELSE @.expires_at]]
refresh_token_save(st, app_key, token, t) ==
    TokenSave(st, token_store(app_key), token.token, token.expires_in, t)

\* get_token, lines 137-140: the dict built from a successful response.
get_token_result(response) ==
    [token |-> response.access_token, expires_in |-> response.expires_in]

\* ------------------------------------------------------- latest_token

\* The record of one latest_token call: the app key, the clock and the stored
\* credential at refresh_token's read, the gettoken requests sent (exch), the
\* errcode answered, the credential saved, how the call ended and what it
\* returned, whether another call for the same app key overlapped it, and
\* (prevSaved) the credential that the caller's previous call saved, when that
\* call was for the same app key and returned after an exchange.
NoCall == [key |-> "none", start |-> 0, startCred |-> NoCred, exch |-> 0,
           errcode |-> 0, saved |-> NoCred, outcome |-> "none", result |-> None,
           concurrent |-> FALSE, prevSaved |-> NoCred]

PrevSaved(c, k) ==
    IF last[c].key = k /\ last[c].outcome = "returned" /\ last[c].exch = 1
    THEN last[c].saved ELSE NoCred

\* Callers other than c that are inside a latest_token call for app key k.
OthersInCall(c, k) == {d \in Callers \ {c} : pc[d] # "idle" /\ cur[d].key = k}

\* A caller builds a DingRequest for app key k (ding_request_instance) and calls
\* latest_token: refresh_token reads the store (line 56) and, finding no usable
\* token, sends the gettoken request (line 58, suspended in get_response).
LatestTokenStart(c, k) ==
    /\ pc[c] = "idle"
    /\ ncalls < MaxCalls
    /\ ncalls' = ncalls + 1
    /\ LET current_token == refresh_token_get(store, k, now)
           miss == NeedsRefresh(current_token)
       IN /\ pc' = [pc EXCEPT ![c] = IF miss THEN "exchange" ELSE "read"]
          /\ cur' = [d \in Callers |->
                       IF d = c
                       THEN [NoCall EXCEPT !.key = k, !.start = now,
                                           !.startCred = store[token_store(k)],
                                           !.exch = IF miss THEN 1 ELSE 0,
                                           !.prevSaved = PrevSaved(c, k),
                                           !.concurrent = OthersInCall(c, k) # {}]
                       ELSE IF d \in OthersInCall(c, k)
                            THEN [cur[d] EXCEPT !.concurrent = TRUE]
                            ELSE cur[d]]
    /\ UNCHANGED <<now, store, issued, lastOk, last>>
    /\ UNCHANGED treeVars
    /\ UNCHANGED extVars

\* The gettoken response arrives with a non-zero errcode: check_response_error
\* raises (line 136), the exception leaves get_token, refresh_token and
\* latest_token.
GetTokenRaise(c) ==
    /\ pc[c] = "exchange"
    /\ \E response \in TokenResponses :
          /\ check_response_error(response)
          /\ last' = [last EXCEPT ![c] = [cur[c] EXCEPT !.outcome = "raised",
                                                        !.errcode = response.errcode]]
    /\ pc' = [pc EXCEPT ![c] = "idle"]
    /\ cur' = [cur EXCEPT ![c] = NoCall]
    /\ UNCHANGED <<now, store, issued, lastOk, ncalls>>
    /\ UNCHANGED treeVars
    /\ UNCHANGED extVars

\* The gettoken response passes check_response_error: get_token returns the
\* token and its lifetime and refresh_token saves them (line 59).
GetTokenSave(c) ==
    /\ pc[c] = "exchange"
    /\ \E response \in TokenResponses :
          /\ ~check_response_error(response)
          /\ LET token == get_token_result(response)
                 key == cur[c].key
                 st == refresh_token_save(store, key, token, now)
             IN /\ store' = st
                /\ issued' = IF response.errcode = 0
                             THEN Append(issued, key)
                             ELSE issued
                /\ lastOk' = IF response.errcode = 0
                             THEN [lastOk EXCEPT ![key] =
                                     [token |-> response.access_token,
                                      expires_at |-> now + response.expires_in]]
                             ELSE lastOk
                /\ cur' = [cur EXCEPT ![c].saved = st[token_store(key)],
                                      ![c].errcode = response.errcode]
    /\ pc' = [pc EXCEPT ![c] = "read"]
    /\ UNCHANGED <<now, last, ncalls>>
    /\ UNCHANGED treeVars
    /\ UNCHANGED extVars

\* latest_token, line 67: return self.token_store.get().
LatestTokenReturn(c) ==
    /\ pc[c] = "read"
    /\ last' = [last EXCEPT ![c] =
                  [cur[c] EXCEPT !.outcome = "returned",
                                 !.result = TokenGet(store, token_store(cur[c].key), now)]]
    /\ pc' = [pc EXCEPT ![c] = "idle"]
    /\ cur' = [cur EXCEPT ![c] = NoCall]
    /\ UNCHANGED <<now, store, issued, lastOk, ncalls>>
    /\ UNCHANGED treeVars
    /\ UNCHANGED extVars

\* Callers between refresh_token's save (line 59) and latest_token's read
\* (line 67): statements that follow each other with no suspension point.
JustSaved == {c \in Callers : pc[c] = "read" /\ cur[c].exch = 1}

\* Time passes: the clock steps to the next unit. A saved token lives for at
\* least one whole unit (expires_in >= 1) and the statements from line 59 to
\* line 67 take less than that, so the clock does not step past a token's
\* lifetime while its saver stands between them. It may step anywhere else,
\* and so between the read of line 56 and the read of line 67.
Tick ==
    /\ now < MaxTime
    /\ JustSaved = {}
    /\ now' = now + 1
    /\ UNCHANGED <<store, issued, lastOk, pc, cur, last, ncalls>>
    /\ UNCHANGED treeVars
    /\ UNCHANGED extVars

TokInit ==
    /\ now = 0
    /\ store = [k \in AppKeys |-> NoCred]
    /\ issued = <<>>
    /\ lastOk = [k \in AppKeys |-> NoCred]
    /\ pc = [c \in Callers |-> "idle"]
    /\ cur = [c \in Callers |-> NoCall]
    /\ last = [c \in Callers |-> NoCall]
    /\ ncalls = 0

\* ------------------------------------------- the department tree fetch

Depts == 1..MaxDept

\* The elements of a set of numbers in ascending order.
RECURSIVE SortedSeq(_)
SortedSeq(S) ==
    IF S = {} THEN <<>>
    ELSE LET m == CHOOSE x \in S : \A y \in S : x <= y
         IN <<m>> \o SortedSeq(S \ {m})

\* The remote directories: every forest over Depts (each department has at most
\* one parent, of a smaller number, so there is no cycle), a department's
\* sub-ids being answered in ascending order.
ParentMaps == {pm \in [Depts -> 0..MaxDept] : \A d \in Depts : pm[d] < d}
DirOf(pm) == [d \in Depts |-> SortedSeq({e \in Depts : pm[e] = d})]
Directories == {DirOf(pm) : pm \in ParentMaps}

\* The lists of root ids: one to MaxRoots distinct departments, in any order
\* (a root may be a descendant of another root).
RootLists ==
    {s \in UNION {[1..n -> Depts] : n \in 1..MaxRoots} :
        \A i, j \in DOMAIN s : i # j => s[i] # s[j]}

\* The app key of the DingRequest in the context (ding_request).
TreeKey == "k1"

Parent(p) == SubSeq(p, 1, Len(p) - 1)
ChildPaths(f, n) == {Append(f, i) : i \in 1..n}
Ev(kind, p) == [kind |-> kind, path |-> p]

\* How the top-level call stands (status), the tree it returned, and the event
\* loop that asyncio.run made for the pass (loop): "running", or "closed" once
\* asyncio.run has torn it down.
NoResult == [status |-> "idle", tree |-> <<>>, loop |-> "running"]

\* One _append_to_tree(parent_dep_id, _tree) coroutine, wrapped in a task by
\* gather. st: "created" (its first step is queued), "wait_token" (gettoken in
\* flight), "token_ready" (that response has arrived), "wait_sub"
\* (department_listsubid in flight), "sub_ready", "children" (awaiting the
\* recursive call), "done", "failed", "cancelled". tok: the access_token its
\* listsubid request carries. sent: the listsubid request was sent; answered:
\* a response of this task was processed; got: its listsubid response was
\* processed. nexch, nreq: the gettoken and the listsubid requests that its
\* one department_listsubid call has sent.
NewTask(dep_id) ==
    [dep |-> dep_id, st |-> "created", tok |-> None,
     sent |-> FALSE, answered |-> FALSE, got |-> FALSE,
     nexch |-> 0, nreq |-> 0]

\* One get_ding_server_depart_tree call suspended in `await asyncio.gather`:
\* its dep_ids, its `tree` list, and the gather future (outer): the children
\* finished so far, its state, and whether the call has resumed from it.
NewFrame(dep_ids) ==
    [dep_ids |-> dep_ids, tree |-> <<>>, nfinished |-> 0,
     outer |-> "pending", resumed |-> FALSE]

\* Lines 37-40: the for loop makes one coroutine per dep_id, in order.
ForLoopTasks(f, dep_ids) ==
    [p \in ChildPaths(f, Len(dep_ids)) |-> NewTask(dep_ids[p[Len(p)]])]

\* Lines 37-39: the for loop calls for_in_callback(dep_id) on every dep_id
\* before it makes the coroutine of that id; sync_ding_department's callback
\* appends the id to dep_ding_id_list (department.py line 58).
CallbackOnFirst(dep_ding_id_list, dep_ids) ==
    IF dep_ids = <<>> THEN dep_ding_id_list
    ELSE Append(dep_ding_id_list, Head(dep_ids))
ForInCallback(dep_ding_id_list, dep_ids) == dep_ding_id_list \o dep_ids

\* Line 42: gather wraps each coroutine in a task; the loop queues their first
\* steps in the order of the arguments.
ScheduleFirstOnly(f, dep_ids) == <<Ev("start", Append(f, 1))>>
GatherSchedules(f, dep_ids) ==
    [i \in 1..Len(dep_ids) |-> Ev("start", Append(f, i))]

\* Line 42: gather's future gets its result when every child has finished.
GatherNeverDone(nfinished, nfuts) == FALSE
GatherOnFirstDone(nfinished, nfuts) == nfinished >= 1
GatherDone(nfinished, nfuts) == nfinished = nfuts

\* Line 42: gather (return_exceptions left False) sets the exception of the
\* first child that ends with one.
GatherSwallows(st) == FALSE
GatherRaises(st) == st = "failed"

\* Lines 32-35: the node appended for parent_dep_id.
ChildlessNode(parent_dep_id, children) == [id |-> parent_dep_id, children |-> <<>>]
TreeNode(parent_dep_id, children) == [id |-> parent_dep_id, children |-> children]

\* Line 32: _tree.append(node), _tree being the `tree` list of the call that
\* made the task.
AppendToTree(fr, f, node) == [fr EXCEPT ![f].tree = Append(@, node)]

\* A department_listsubid response: the sub-ids of the department, or a
\* non-zero errcode (40014: the provider refuses the access_token).
SubResponses(p) ==
    {[errcode |-> 0, dept_id_list |-> dir[tasks[p].dep]],
     [errcode |-> 40014, dept_id_list |-> <<>>]}

\* The gettoken responses during a tree fetch: a token that outlives the
\* fetch, or a non-zero errcode.
TreeTokenResponses == {OkResponse(MaxExpiresIn), ErrResponse}

\* sync_ding_organization, lines 66-80: the except clause clears is_success
\* when the try block raised, and the finally clause creates the dingtalk.log
\* record and sends the end notification. Nothing is awaited on the way, and
\* the coroutine returns.
LogAsSuccess(raised) == TRUE
ExceptClause(raised) == ~raised
EndOfPass(ps, raised) ==
    LET is_success == ExceptClause(raised)
    IN [ps EXCEPT
          !.phase = "ended",
          !.is_success = is_success,
          !.logs = Append(@, [detail |-> IF is_success THEN "sync success!"
                                         ELSE "sync failed, error"]),
          !.ends = Append(@, [title |-> "Sync End......",
                              message |-> IF is_success THEN "success"
                                          ELSE "failed"])]

\* app.py line 50: the pass runs inside `with self.env.registry.cursor()`.
\* The exception never leaves the block, so the cursor commits when
\* sync_ding_organization returns: every write made so far, the log record
\* included, is kept (committed: the number of writes committed).
Rollback(d, ending) ==
    IF ending
    THEN [d EXCEPT !.deps = d.before.deps, !.emps = d.before.emps,
                   !.committed = 0]
    ELSE d
CursorExit(d, ending) ==
    IF ending THEN [d EXCEPT !.committed = Len(d.log)] ELSE d

HeadIs(kind) ==
    /\ result.loop = "running"
    /\ ready # <<>>
    /\ Head(ready).kind = kind

\* get_auth_scopes has returned: sync_ding_organization calls
\* sync_ding_department, which calls
\* get_ding_server_depart_tree(authed_dept, callback): the for loop calls
\* for_in_callback on each id and makes the coroutines, gather schedules them
\* and the call suspends. (From the return of get_auth_scopes to here the code
\* runs without an await; only the clock can step in between.)
StartTree ==
    /\ pass.phase = "running"
    /\ call.st = "returned"
    /\ result.status = "idle"
    /\ result' = [result EXCEPT !.status = "running"]
    /\ cbLog' = ForInCallback(cbLog, roots)
    /\ tasks' = ForLoopTasks(<<>>, roots)
    /\ frames' = (<<>> :> NewFrame(roots))
    /\ ready' = GatherSchedules(<<>>, roots)
    /\ UNCHANGED <<dir, roots>>
    /\ UNCHANGED extVars
    /\ UNCHANGED tokVars

\* The first step of a task: _append_to_tree calls department_listsubid, which
\* calls latest_token. refresh_token reads the store (line 56); with no usable
\* token it sends gettoken and suspends; otherwise latest_token reads the store
\* again (line 67) and the listsubid request is sent with that token. (The two
\* reads fall in the same clock unit here; a clock step between them is what
\* Spec explores, and it yields a request that the provider refuses, as
\* RunSubRaise lets it refuse any request.)
RunStart ==
    /\ HeadIs("start")
    /\ LET p == Head(ready).path
           slot == token_store(TreeKey)
       IN IF NeedsRefresh(refresh_token_get(store, TreeKey, now))
          THEN tasks' = [tasks EXCEPT ![p].st = "wait_token",
                                      ![p].nexch = @ + 1]
          ELSE tasks' = [tasks EXCEPT ![p].st = "wait_sub",
                                      ![p].sent = TRUE,
                                      ![p].nreq = @ + 1,
                                      ![p].tok = TokenGet(store, slot, now)]
    /\ ready' = Tail(ready)
    /\ UNCHANGED tokVars
    /\ UNCHANGED <<dir, roots, frames, cbLog, result>>
    /\ UNCHANGED extVars

\* The response of a request in flight arrives: the loop queues the callback
\* that resumes the task.
Deliver(p) ==
    /\ result.loop = "running"
    /\ p \in DOMAIN tasks
    /\ tasks[p].st \in {"wait_token", "wait_sub"}
    /\ tasks' = [tasks EXCEPT ![p].st = IF @ = "wait_token" THEN "token_ready"
                                                             ELSE "sub_ready"]
    /\ ready' = Append(ready, Ev("resp", p))
    /\ UNCHANGED <<dir, roots, frames, cbLog, result>>
    /\ UNCHANGED extVars
    /\ UNCHANGED tokVars

\* The task resumes with a gettoken response that check_response_error
\* refuses: the exception ends the task.
RunTokenRaise ==
    /\ HeadIs("resp")
    /\ LET p == Head(ready).path
       IN /\ tasks[p].st = "token_ready"
          /\ \E response \in TreeTokenResponses : check_response_error(response)
          /\ tasks' = [tasks EXCEPT ![p].st = "failed", ![p].answered = TRUE]
          /\ ready' = Append(Tail(ready), Ev("cb", p))
    /\ UNCHANGED <<dir, roots, frames, cbLog, result>>
    /\ UNCHANGED extVars
    /\ UNCHANGED tokVars

\* The task resumes with an accepted gettoken response: refresh_token saves
\* the token, latest_token reads it back and the listsubid request is sent.
RunTokenSave ==
    /\ HeadIs("resp")
    /\ LET p == Head(ready).path
       IN /\ tasks[p].st = "token_ready"
          /\ \E response \in TreeTokenResponses :
                /\ ~check_response_error(response)
                /\ LET st == refresh_token_save(store, TreeKey,
                                                get_token_result(response), now)
                   IN /\ store' = st
                      /\ issued' = Append(issued, TreeKey)
                      /\ lastOk' = [lastOk EXCEPT ![TreeKey] =
                                      [token |-> response.access_token,
                                       expires_at |-> now + response.expires_in]]
                      /\ tasks' = [tasks EXCEPT
                                     ![p].st = "wait_sub",
                                     ![p].sent = TRUE,
                                     ![p].nreq = @ + 1,
                                     ![p].answered = TRUE,
                                     ![p].tok = TokenGet(st, token_store(TreeKey), now)]
    /\ ready' = Tail(ready)
    /\ UNCHANGED now
    /\ UNCHANGED callerVars
    /\ UNCHANGED <<dir, roots, frames, cbLog, result>>
    /\ UNCHANGED extVars

\* The task resumes with a listsubid response that check_response_error
\* refuses (line 216): the exception ends the task.
RunSubRaise ==
    /\ HeadIs("resp")
    /\ LET p == Head(ready).path
       IN /\ tasks[p].st = "sub_ready"
          /\ \E response \in SubResponses(p) : check_response_error(response)
          /\ tasks' = [tasks EXCEPT ![p].st = "failed", ![p].answered = TRUE,
                                    ![p].got = TRUE]
          /\ ready' = Append(Tail(ready), Ev("cb", p))
    /\ UNCHANGED <<dir, roots, frames, cbLog, result>>
    /\ UNCHANGED extVars
    /\ UNCHANGED tokVars

\* The task resumes with an empty sublist: the recursive call has no
\* coroutine to make, its gather of nothing is done at once and it returns [];
\* the node is appended and the task is done.
RunSubLeaf ==
    /\ HeadIs("resp")
    /\ LET p == Head(ready).path
       IN /\ tasks[p].st = "sub_ready"
          /\ \E response \in SubResponses(p) :
                /\ ~check_response_error(response)
                /\ response.dept_id_list = <<>>
                /\ frames' = AppendToTree(frames, Parent(p),
                                          TreeNode(tasks[p].dep, <<>>))
          /\ tasks' = [tasks EXCEPT ![p].st = "done", ![p].answered = TRUE,
                                    ![p].got = TRUE]
          /\ ready' = Append(Tail(ready), Ev("cb", p))
    /\ UNCHANGED <<dir, roots, cbLog, result>>
    /\ UNCHANGED extVars
    /\ UNCHANGED tokVars

\* The task resumes with a sublist: the recursive call runs its for loop
\* (callback and coroutine per sub-id), gather schedules the children and the
\* task suspends on it.
RunSubFanOut ==
    /\ HeadIs("resp")
    /\ LET p == Head(ready).path
       IN /\ tasks[p].st = "sub_ready"
          /\ \E response \in SubResponses(p) :
                /\ ~check_response_error(response)
                /\ response.dept_id_list # <<>>
                /\ LET sublist == response.dept_id_list
                   IN /\ cbLog' = ForInCallback(cbLog, sublist)
                      /\ tasks' = ForLoopTasks(p, sublist) @@
                                  [tasks EXCEPT ![p].st = "children",
                                                ![p].answered = TRUE,
                                                ![p].got = TRUE]
                      /\ frames' = (p :> NewFrame(sublist)) @@ frames
                      /\ ready' = Tail(ready) \o GatherSchedules(p, sublist)
    /\ UNCHANGED <<dir, roots, result>>
    /\ UNCHANGED extVars
    /\ UNCHANGED tokVars

\* gather's callback for a finished child: the first failure sets the
\* exception on gather's future at once; otherwise the child is counted and,
\* when gather is done, the result is set. Either wakes the awaiting call.
\* Children that finish after the future is set change nothing.
RunCallback ==
    /\ HeadIs("cb")
    /\ LET p == Head(ready).path
           f == Parent(p)
           n == frames[f].nfinished + 1
       IN IF frames[f].outer # "pending"
          THEN /\ frames' = frames
               /\ ready' = Tail(ready)
          ELSE IF GatherRaises(tasks[p].st)
          THEN /\ frames' = [frames EXCEPT ![f].outer = "exception"]
               /\ ready' = Append(Tail(ready), Ev("wake", f))
          ELSE IF GatherDone(n, Len(frames[f].dep_ids))
          THEN /\ frames' = [frames EXCEPT ![f].nfinished = n,
                                           ![f].outer = "result"]
               /\ ready' = Append(Tail(ready), Ev("wake", f))
          ELSE /\ frames' = [frames EXCEPT ![f].nfinished = n]
               /\ ready' = Tail(ready)
    /\ UNCHANGED <<dir, roots, tasks, cbLog, result>>
    /\ UNCHANGED extVars
    /\ UNCHANGED tokVars

\* A recursive call resumes from its gather: it returns its tree, and the task
\* appends its node (lines 32-35), or the exception of gather ends the task.
RunWake ==
    /\ HeadIs("wake")
    /\ LET f == Head(ready).path
       IN /\ f # <<>>
          /\ IF frames[f].outer = "result"
             THEN /\ frames' = AppendToTree([frames EXCEPT ![f].resumed = TRUE],
                                            Parent(f),
                                            TreeNode(tasks[f].dep, frames[f].tree))
                  /\ tasks' = [tasks EXCEPT ![f].st = "done"]
             ELSE /\ frames' = [frames EXCEPT ![f].resumed = TRUE]
                  /\ tasks' = [tasks EXCEPT ![f].st = "failed"]
          /\ ready' = Append(Tail(ready), Ev("cb", f))
    /\ UNCHANGED <<dir, roots, cbLog, result>>
    /\ UNCHANGED extVars
    /\ UNCHANGED tokVars

\* The top-level call resumes from its gather: it returns its tree (line 44)
\* or raises. The exception leaves sync_ding_department and
\* sync_ding_organization ends the pass in the same run.
RunWakeRoot ==
    /\ HeadIs("wake")
    /\ Head(ready).path = <<>>
    /\ frames' = [frames EXCEPT ![<<>>].resumed = TRUE]
    /\ result' = IF frames[<<>>].outer = "result"
                 THEN [result EXCEPT !.status = "returned",
                                     !.tree = frames[<<>>].tree]
                 ELSE [result EXCEPT !.status = "raised"]
    /\ pass' = IF frames[<<>>].outer = "result" THEN pass
               ELSE EndOfPass(pass, TRUE)
    /\ db' = CursorExit(db, frames[<<>>].outer # "result")
    /\ ready' = Tail(ready)
    /\ UNCHANGED <<dir, roots, tasks, cbLog>>
    /\ UNCHANGED call
    /\ UNCHANGED <<members, stasks, sframes>>
    /\ UNCHANGED tokVars

\* asyncio.run (run_ding_sync, line 41), once its coroutine has ended: every
\* task that is not finished is cancelled, then the loop is closed.
LeaveTasks(ts) == ts
CancelAllTasks(ts) ==
    [p \in DOMAIN ts |-> IF ts[p].st \in {"done", "failed"}
                         THEN ts[p]
                         ELSE [ts[p] EXCEPT !.st = "cancelled"]]

\* sync_ding_organization has ended the pass and returned, and asyncio.run
\* tears the loop down. (The loop may run callbacks that were ready before it
\* stops: here it may run any.)
Teardown ==
    /\ pass.phase = "ended"
    /\ result.loop = "running"
    /\ tasks' = CancelAllTasks(tasks)
    /\ stasks' = CancelAllTasks(stasks)
    /\ ready' = <<>>
    /\ result' = [result EXCEPT !.loop = "closed"]
    /\ UNCHANGED <<dir, roots, frames, cbLog>>
    /\ UNCHANGED <<call, members, db, sframes, pass>>
    /\ UNCHANGED tokVars

\* Time passes during a tree fetch.
TreeTick == now < MaxTreeTicks /\ Tick

\* ------------------------------------------- one DingRequest operation

\* A field, parameter or header that is not there.
Absent == -1

\* The two base addresses (lines 38-39).
url_prefix == "https://oapi.dingtalk.com"
new_api_url_prefix == "https://api.dingtalk.com"

\* The operations of DingRequest, one row each: the base address its url is
\* joined to, where it puts a token ("query": access_token=<latest_token()> in
\* the url; "header": x-acs-dingtalk-access-token: <latest_token()>;
\* "user_header": that header with the caller's user_access_token; "none"),
\* and how it tests the response ("errcode": check_response_error; "code":
\* check_new_response_error, written out in get_user_access_token).
Endpoints ==
    {[op |-> "get_token", base |-> url_prefix, token_in |-> "none", check |-> "errcode"],
     [op |-> "get_user_access_token", base |-> new_api_url_prefix, token_in |-> "none", check |-> "code"],
     [op |-> "get_user_info_by_access_token", base |-> new_api_url_prefix, token_in |-> "user_header", check |-> "code"],
     [op |-> "get_user_info_by_userid", base |-> url_prefix, token_in |-> "query", check |-> "errcode"],
     [op |-> "get_auth_scopes", base |-> url_prefix, token_in |-> "query", check |-> "errcode"],
     [op |-> "department_listsubid", base |-> url_prefix, token_in |-> "query", check |-> "errcode"],
     [op |-> "department_detail", base |-> url_prefix, token_in |-> "query", check |-> "errcode"],
     [op |-> "department_users", base |-> url_prefix, token_in |-> "query", check |-> "errcode"],
     [op |-> "upload_media", base |-> url_prefix, token_in |-> "query", check |-> "errcode"],
     [op |-> "send_message", base |-> url_prefix, token_in |-> "query", check |-> "errcode"],
     [op |-> "create_or_update_custom_oa_template", base |-> new_api_url_prefix, token_in |-> "header", check |-> "code"],
     [op |-> "get_custom_oa_process_code", base |-> new_api_url_prefix, token_in |-> "header", check |-> "code"],
     [op |-> "delete_custom_oa_template", base |-> new_api_url_prefix, token_in |-> "header", check |-> "code"],
     [op |-> "create_custom_oa_instance", base |-> new_api_url_prefix, token_in |-> "header", check |-> "code"],
     [op |-> "update_custom_oa_instance_state", base |-> new_api_url_prefix, token_in |-> "header", check |-> "code"],
     [op |-> "update_custom_oa_instance_state_batch", base |-> new_api_url_prefix, token_in |-> "header", check |-> "code"],
     [op |-> "create_custom_oa_task", base |-> new_api_url_prefix, token_in |-> "header", check |-> "code"],
     [op |-> "get_custom_oa_tasks", base |-> new_api_url_prefix, token_in |-> "header", check |-> "code"],
     [op |-> "update_custom_oa_task_state", base |-> new_api_url_prefix, token_in |-> "header", check |-> "code"],
     [op |-> "cancel_custom_oa_tasks_batch", base |-> new_api_url_prefix, token_in |-> "header", check |-> "code"],
     [op |-> "create_or_update_official_oa_template", base |-> new_api_url_prefix, token_in |-> "header", check |-> "code"],
     [op |-> "get_official_oa_form_schemas", base |-> new_api_url_prefix, token_in |-> "header", check |-> "code"],
     [op |-> "get_official_oa_processes_nodes", base |-> new_api_url_prefix, token_in |-> "header", check |-> "code"],
     [op |-> "create_official_oa_instance", base |-> new_api_url_prefix, token_in |-> "header", check |-> "code"],
     [op |-> "get_official_oa_instance_id_list", base |-> new_api_url_prefix, token_in |-> "header", check |-> "code"],
     [op |-> "get_official_oa_instance_detail", base |-> new_api_url_prefix, token_in |-> "header", check |-> "code"],
     [op |-> "redirect_official_oa_task", base |-> new_api_url_prefix, token_in |-> "header", check |-> "code"],
     [op |-> "get_official_oa_spaces_infos", base |-> new_api_url_prefix, token_in |-> "header", check |-> "code"],
     [op |-> "create_official_oa_approve_comment", base |-> new_api_url_prefix, token_in |-> "header", check |-> "code"],
     [op |-> "execute_official_oa_task", base |-> new_api_url_prefix, token_in |-> "header", check |-> "code"],
     [op |-> "terminate_official_oa_instance", base |-> new_api_url_prefix, token_in |-> "header", check |-> "code"],
     [op |-> "get_official_oa_todo_tasks_number", base |-> new_api_url_prefix, token_in |-> "header", check |-> "code"],
     [op |-> "get_user_official_oa_tasks", base |-> new_api_url_prefix, token_in |-> "header", check |-> "code"],
     [op |-> "get_user_official_oa_templates", base |-> new_api_url_prefix, token_in |-> "header", check |-> "code"]}

Ops == {e.op : e \in Endpoints}
Endpoint(op) == CHOOSE e \in Endpoints : e.op = op

\* The user_access_token a caller passes to get_user_info_by_access_token.
UserTokens == {100}

\* check_new_response_error(response): TRUE when it raises.
CheckNewByErrcode(response) == response.errcode # 0
check_new_response_error(response) == response.code # Absent

\* The test an operation applies to its response.
ResponseFails(op, response) ==
    IF Endpoint(op).check = "errcode"
    THEN check_response_error(response)
    ELSE check_new_response_error(response)

\* The request an operation sends: its base address, and the token in the
\* url's query string or in the headers.
BuildRequestBoth(op, token, user_access_token) ==
    [op |-> op, base |-> Endpoint(op).base,
     query_token |-> token, header_token |-> token]
BuildRequest(op, token, user_access_token) ==
    [op |-> op,
     base |-> Endpoint(op).base,
     query_token |-> IF Endpoint(op).token_in = "query" THEN token ELSE Absent,
     header_token |-> IF Endpoint(op).token_in = "header" THEN token
                      ELSE IF Endpoint(op).token_in = "user_header"
                           THEN user_access_token
                           ELSE Absent]

\* The operation calls latest_token.
CallsLatestToken(op) == Endpoint(op).token_in \in {"query", "header"}

\* What an operation returns: the result fields of the response.
ReturnOf(op, response) == response.result

\* The responses an endpoint may give: errcode 0, non-zero or missing, a code
\* field or none.
NoResponse == [errcode |-> Absent, code |-> Absent, result |-> Absent]
EndpointResponses ==
    {[errcode |-> e, code |-> c, result |-> 1] :
        e \in {0, 40014, Absent}, c \in {Absent, 500}}

\* (via: "send_ding_message" when the operation was called by it.)
\* One call: the operation, where it stands ("idle", "exchange": gettoken in
\* flight, "sent": the endpoint request in flight, "returned", "raised"), the
\* value latest_token returned, the requests sent in order, the endpoint
\* response, what raised ("exchange" or "endpoint") and the value returned.
\* Python values of arguments and of request fields: None, True, a str (its
\* pieces in order) or a list (its items in order).
PyNone == [kind |-> "None", items |-> <<>>]
PyTrue == [kind |-> "True", items |-> <<>>]
PyStr(pieces) == [kind |-> "str", items |-> pieces]
PyList(items) == [kind |-> "list", items |-> items]

\* The arguments of a call: dept_id (department_detail, department_users),
\* process_code and clean_running_task (delete_custom_oa_template; the Python
\* values False and True, or the str 'false'), result
\* (execute_official_oa_task), to_users and to_departments (send_ding_message).
\* DefaultArgs passes every assertion.
DefaultArgs ==
    [dept_id |-> 1, process_code |-> "PROC-001", clean_running_task |-> "False",
     result |-> "agree", to_users |-> PyNone, to_departments |-> PyNone]

\* The fields of a request body that depend on the arguments:
\* cleanRunningTask ("true", "false" or "absent"), and userid_list,
\* to_all_user and dept_id_list of a message.
NoBody ==
    [cleanRunningTask |-> "absent", userid_list |-> PyNone,
     to_all_user |-> PyNone, dept_id_list |-> PyNone]

NoOpCall ==
    [op |-> "none", st |-> "idle", user_access_token |-> Absent,
     latest |-> Absent, requests |-> <<>>, response |-> NoResponse,
     raised_by |-> "none", result |-> Absent,
     args |-> DefaultArgs, body |-> NoBody, via |-> "direct"]

\* The assertions at the head of an operation (lines 226, 245, 340, 771-774)
\* hold for the arguments.
AssertNothing(op, args) == TRUE
AssertionsHold(op, args) ==
    CASE op \in {"department_detail", "department_users"} ->
            args.dept_id # None
      [] op = "delete_custom_oa_template" -> args.process_code # "None"
      [] op = "execute_official_oa_task" -> args.result \in {"agree", "refuse"}
      [] OTHER -> TRUE

\* Line 344: 'cleanRunningTask': False if clean_running_task == 'false' else
\* True, as it is serialised.
cleanRunningTask(clean_running_task) ==
    IF clean_running_task = "'false'" THEN "false" ELSE "true"

\* list_to_str (utils.py lines 28-37): None stays None; the items are joined
\* with ','.
RECURSIVE JoinPieces(_)
JoinPieces(items) ==
    IF Len(items) <= 1 THEN items
    ELSE <<Head(items), ",">> \o JoinPieces(Tail(items))
list_to_str(target_list) ==
    IF target_list.kind = "None" THEN target_list
    ELSE PyStr(JoinPieces(target_list.items))

\* The body of the request of an operation.
BodyOf(op, args) ==
    CASE op = "delete_custom_oa_template" ->
            [NoBody EXCEPT
               !.cleanRunningTask = cleanRunningTask(args.clean_running_task)]
      [] op = "send_message" ->
            \* app.py lines 129-139
            [NoBody EXCEPT
               !.userid_list = IF args.to_users = PyStr(<<"to_all_user">>)
                               THEN PyNone ELSE list_to_str(args.to_users),
               !.to_all_user = IF args.to_users # PyStr(<<"to_all_user">>)
                               THEN PyNone ELSE PyTrue,
               !.dept_id_list = list_to_str(args.to_departments)]
      [] OTHER -> NoBody

\* A caller calls an operation of the DingRequest of TreeKey. An operation
\* that calls latest_token reads the store (line 56) and sends gettoken when it
\* finds no usable token; otherwise, and for the other operations, the
\* endpoint request is sent.
StartedCallWith(op, ut, args) ==
    LET c == [NoOpCall EXCEPT !.op = op, !.user_access_token = ut,
                              !.args = args, !.body = BodyOf(op, args)]
    IN IF ~AssertionsHold(op, args)
       THEN [c EXCEPT !.st = "raised", !.raised_by = "AssertionError",
                      !.body = NoBody]
       ELSE IF CallsLatestToken(op)
          /\ NeedsRefresh(refresh_token_get(store, TreeKey, now))
       THEN [c EXCEPT !.st = "exchange",
                      !.requests = <<BuildRequest("get_token", Absent, Absent)>>]
       ELSE LET token == IF CallsLatestToken(op)
                         THEN TokenGet(store, token_store(TreeKey), now)
                         ELSE Absent
            IN [c EXCEPT !.st = "sent",
                         !.latest = token,
                         !.requests = <<BuildRequest(op, token, ut)>>]
StartedCall(op, ut) == StartedCallWith(op, ut, DefaultArgs)

CallStart(op, ut) ==
    /\ pass.phase = "idle"
    /\ call.st \in {"idle", "returned", "raised"}
    /\ call' = StartedCall(op, ut)
    /\ UNCHANGED tokVars
    /\ UNCHANGED treeVars
    /\ UNCHANGED syncVars
    /\ UNCHANGED pass

\* The exception of a call made by sync_ding_organization ends the pass.
RaisedIn(ps) == IF ps.phase = "running" THEN EndOfPass(ps, TRUE) ELSE ps

\* The arguments a caller may pass.
CallArgs ==
    {[DefaultArgs EXCEPT !.dept_id = d, !.process_code = pc_,
                         !.clean_running_task = crt, !.result = res] :
        d \in {None, 1}, pc_ \in {"None", "PROC-001"},
        crt \in {"False", "True", "'false'"},
        res \in {"agree", "refuse", "None", "pass"}}
ArgOps ==
    {"department_detail", "department_users", "delete_custom_oa_template",
     "execute_official_oa_task"}

\* A caller calls an operation with arguments of its choice: the assertions
\* come first and raise before anything else is done.
CallStartArgs(op, args) ==
    /\ pass.phase = "idle"
    /\ call.st \in {"idle", "returned", "raised"}
    /\ call' = StartedCallWith(op, Absent, args)
    /\ UNCHANGED tokVars
    /\ UNCHANGED treeVars
    /\ UNCHANGED syncVars
    /\ UNCHANGED pass

\* len(x) == 0 for a Python value: "yes", "no", or "TypeError" when the value
\* has no len().
LenIsZero(x) ==
    IF x.kind \in {"list", "str"}
    THEN IF x.items = <<>> THEN "yes" ELSE "no"
    ELSE "TypeError"

\* The to_users and to_departments a caller may pass to send_ding_message
\* (to_departments is None when it is not given).
ToUsers ==
    {PyStr(<<"to_all_user">>), PyList(<<>>), PyList(<<"u1">>),
     PyList(<<"u1", "u2">>)}
ToDepartments ==
    {PyNone, PyList(<<>>), PyList(<<"d1">>), PyList(<<"d1", "d2">>)}

\* send_ding_message (employee.py lines 149-170, app.py lines 123-139): the
\* test `len(to_users) == 0 and len(to_departments) == 0` is evaluated left to
\* right, the second len only when the first is 0; then the message is built
\* and send_message is called.
SendDingMessage(to_users, to_departments) ==
    /\ pass.phase = "idle"
    /\ call.st \in {"idle", "returned", "raised"}
    /\ LET args == [DefaultArgs EXCEPT !.to_users = to_users,
                                       !.to_departments = to_departments]
           c == [NoOpCall EXCEPT !.op = "send_message", !.args = args,
                                 !.via = "send_ding_message"]
           first == LenIsZero(to_users)
           second == LenIsZero(to_departments)
       IN IF first = "TypeError" \/ (first = "yes" /\ second = "TypeError")
          THEN call' = [c EXCEPT !.st = "raised", !.raised_by = "TypeError"]
          ELSE IF first = "yes" /\ second = "yes"
          THEN call' = [c EXCEPT !.st = "raised", !.raised_by = "UserError"]
          ELSE call' = [StartedCallWith("send_message", Absent, args) EXCEPT
                          !.via = "send_ding_message"]
    /\ UNCHANGED tokVars
    /\ UNCHANGED treeVars
    /\ UNCHANGED syncVars
    /\ UNCHANGED pass

\* The gettoken response is refused (line 136): the operation raises.
CallTokenRaise ==
    /\ call.st = "exchange"
    /\ \E response \in TreeTokenResponses : check_response_error(response)
    /\ call' = [call EXCEPT !.st = "raised", !.raised_by = "exchange"]
    /\ pass' = RaisedIn(pass)
    /\ db' = CursorExit(db, pass.phase = "running")
    /\ UNCHANGED tokVars
    /\ UNCHANGED treeVars
    /\ UNCHANGED <<members, stasks, sframes>>

\* The gettoken response is accepted: refresh_token saves the token (line 59),
\* latest_token reads it back (line 67) and the endpoint request is sent.
CallTokenSave ==
    /\ call.st = "exchange"
    /\ \E response \in TreeTokenResponses :
          /\ ~check_response_error(response)
          /\ LET st == refresh_token_save(store, TreeKey,
                                          get_token_result(response), now)
                 token == TokenGet(st, token_store(TreeKey), now)
             IN /\ store' = st
                /\ issued' = Append(issued, TreeKey)
                /\ lastOk' = [lastOk EXCEPT ![TreeKey] =
                                [token |-> response.access_token,
                                 expires_at |-> now + response.expires_in]]
                /\ call' = [call EXCEPT
                              !.st = "sent",
                              !.latest = token,
                              !.requests = Append(@, BuildRequest(call.op, token,
                                                                  call.user_access_token))]
    /\ UNCHANGED now
    /\ UNCHANGED callerVars
    /\ UNCHANGED treeVars
    /\ UNCHANGED syncVars
    /\ UNCHANGED pass

\* The endpoint response fails the operation's test: the operation raises.
CallRetry ==
    /\ call.st = "sent"
    /\ \E response \in EndpointResponses :
          /\ ResponseFails(call.op, response)
          /\ call' = [call EXCEPT
                        !.response = response,
                        !.requests = Append(@, BuildRequest(call.op, call.latest,
                                                            call.user_access_token))]
    /\ Len(call.requests) < 3
    /\ UNCHANGED tokVars
    /\ UNCHANGED treeVars
    /\ UNCHANGED syncVars
    /\ UNCHANGED pass

CallRaise ==
    /\ call.st = "sent"
    /\ \E response \in EndpointResponses :
          /\ ResponseFails(call.op, response)
          /\ call' = [call EXCEPT !.st = "raised", !.raised_by = "endpoint",
                                  !.response = response]
    /\ pass' = RaisedIn(pass)
    /\ db' = CursorExit(db, pass.phase = "running")
    /\ UNCHANGED tokVars
    /\ UNCHANGED treeVars
    /\ UNCHANGED <<members, stasks, sframes>>

\* The endpoint response passes the test: the operation returns its result.
CallReturn ==
    /\ call.st = "sent"
    /\ \E response \in EndpointResponses :
          /\ ~ResponseFails(call.op, response)
          /\ call' = [call EXCEPT !.st = "returned",
                                  !.response = response,
                                  !.result = ReturnOf(call.op, response)]
    /\ UNCHANGED tokVars
    /\ UNCHANGED treeVars
    /\ UNCHANGED syncVars
    /\ UNCHANGED pass

\* Time passes between and during calls.
CallTick == now < MaxTreeTicks /\ Tick

\* ---------------------- sync_ding_department, _sync_dep and sync_ding_user

\* The departments of the directory during a pass.
MaxSyncDept == 2
\* The pages of one member listing, and the users of a page.
MaxPages == 3
MaxPageSize == 2

\* Python's False, where a record id is expected.
False == 0

SyncDepts == 1..MaxSyncDept
Elems(s) == {s[i] : i \in DOMAIN s}

\* The directories and root lists over SyncDepts.
PassDirs ==
    {d \in Directories :
        \A k \in Depts \ SyncDepts :
            d[k] = <<>> /\ \A e \in Depts : k \notin Elems(d[e])}
PassRoots == {r \in RootLists : Elems(r) \subseteq SyncDepts}

\* The parent_id of a department_detail result: absent for a root department
\* (dep_detail.get('parent_id', None), line 77).
ServerParent(d) ==
    IF \E e \in Depts : d \in Elems(dir[e])
    THEN CHOOSE e \in Depts : d \in Elems(dir[e])
    ELSE None

\* The j-th user of page i of department d: the first user of a page is a
\* leader of the department, and the users of a second page are inactive.
UserOf(d, i, j) ==
    [unionid |-> 100 * d + 10 * i + j,
     leader |-> IF j = 1 THEN 1 ELSE 0,
     active |-> i # 2,
     main_dept |-> d]

\* A page of the listing: response['result'] of department_users, with its
\* list and its next_cursor (Absent: the key is not there).
PageOf(d, i, size, next_cursor) ==
    [list |-> [j \in 1..size |-> UserOf(d, i, j)], next_cursor |-> next_cursor]

\* The listings a server holds for department d: one to MaxPages pages of 0 to
\* MaxPageSize users; page i is the answer to cursor i - 1, and every page but
\* the last names the cursor of the next page or none.
Listings(d) ==
    UNION {
        {[i \in 1..n |-> PageOf(d, i, size[i], next[i])] :
            size \in [1..n -> 0..MaxPageSize],
            next \in {nx \in [1..n -> {Absent} \cup 1..n] :
                        /\ nx[n] = Absent
                        /\ \A i \in 1..(n - 1) : nx[i] \in {i, Absent}}} :
        n \in 1..MaxPages}

\* The page the server answers to department_users(dept_id, cursor).
PageAt(dept_id, cursor) == members[dept_id][cursor + 1]

\* One _sync_dep coroutine (lines 67-93), as a task of the loop: its leaf of
\* the depart_tree and its parent_id argument; where it stands ("created",
\* "wait_token", "token_ready", "wait_resp", "resp_ready", "children", "done",
\* "failed", "cancelled"); the operation it is in ("detail", "users") and the
\* cursor of its department_users call; the cursors of the department_users
\* requests it has sent and the pages it has received, in order; user_list;
\* the id of its hr.department record (dep); whether the writes of
\* sync_ding_user (lines 92-138) have run; and the await that raised in it
\* ("exchange": gettoken, "detail", "users", "gather").
NewSyncTask(leaf, parent_id) ==
    [leaf |-> leaf, parent_id |-> parent_id, st |-> "created",
     op |-> "none", cursor |-> Absent, asked |-> <<>>, pages |-> <<>>,
     user_list |-> <<>>, dep |-> False, wrote |-> FALSE,
     raised_in |-> "none"]

\* A gather of n _sync_dep coroutines (lines 93 and 98).
NewSyncFrame(n) ==
    [n |-> n, nfinished |-> 0, outer |-> "pending", resumed |-> FALSE]

\* Lines 91-92 and 95-96: one coroutine per leaf, in order.
SyncTasks(f, leaves, parent_id) ==
    [p \in ChildPaths(f, Len(leaves)) |->
        NewSyncTask(leaves[p[Len(p)]], parent_id)]
SyncSchedules(f, leaves) ==
    [i \in 1..Len(leaves) |-> Ev("sstart", Append(f, i))]

\* The request of the task's operation is sent.
SentTwice(t) ==
    [t EXCEPT !.st = "wait_resp",
              !.asked = IF t.op = "users" THEN @ \o <<t.cursor, t.cursor>> ELSE @]
Sent(t) ==
    [t EXCEPT !.st = "wait_resp",
              !.asked = IF t.op = "users" THEN Append(@, t.cursor) ELSE @]

\* department_detail and department_users call latest_token first:
\* refresh_token reads the store (line 56) and sends gettoken when it finds no
\* usable token; otherwise the request is sent.
SendOrExchange(t, op, cursor) ==
    LET u == [t EXCEPT !.op = op, !.cursor = cursor]
    IN IF NeedsRefresh(refresh_token_get(store, TreeKey, now))
       THEN [u EXCEPT !.st = "wait_token"]
       ELSE Sent(u)

\* The responses of department_detail and of department_users: the result or
\* a non-zero errcode (and then no result).
NoDetail == [dept_id |-> Absent, parent_id |-> Absent]
NoPage == [list |-> <<>>, next_cursor |-> Absent]
DetailResponses(p) ==
    {[errcode |-> 0,
      result |-> [dept_id |-> stasks[p].leaf.id,
                  parent_id |-> ServerParent(stasks[p].leaf.id)]],
     [errcode |-> 40014, result |-> NoDetail]}
UsersResponses(p) ==
    {[errcode |-> 0, result |-> PageAt(stasks[p].leaf.id, stasks[p].cursor)],
     [errcode |-> 40014, result |-> NoPage]}

\* employee.py line 87: the loop goes on while next_cursor is not None.
HasNextPage(next_cursor) == next_cursor # Absent

\* employee.py lines 86 and 90: user_list is the first list, extended by the
\* others.
PrependPage(user_list, page) == page.list \o user_list
ExtendUserList(user_list, page) == user_list \o page.list

\* employee.py lines 88-90: the body of the page loop writes nothing to the
\* database.
WritePerPage(d, dep, page, p) ==
    [d EXCEPT !.log = Append(@, [kind |-> "members", by |-> p])]
AfterPage(d, dep, page, p) == d

\* department.py lines 64-65: the employees of the departments of
\* dep_ding_id_list are written inactive.
KeepActive(d, dep_ding_id_list) ==
    [d EXCEPT !.log = Append(@, [kind |-> "deactivate", by |-> <<>>])]
Deactivate(d, dep_ding_id_list) ==
    [d EXCEPT
       !.emps = [i \in DOMAIN d.emps |->
                   IF \E k \in d.emps[i].ding_department_ids :
                         d.deps[k].ding_id \in Elems(dep_ding_id_list)
                   THEN [d.emps[i] EXCEPT !.active = FALSE]
                   ELSE d.emps[i]],
       !.log = Append(@, [kind |-> "deactivate", by |-> <<>>])]

\* department.py lines 71-86: the hr.department with the ding_id is searched,
\* and created or written with modify_data.
FindNothing(d, ding_id) == {}
FoundDepartments(d, ding_id) ==
    {i \in DOMAIN d.deps : d.deps[i].ding_id = ding_id}
LeaveDepartment(d, dep_detail, parent_id, p) == d
UpsertDepartment(d, dep_detail, parent_id, p) ==
    LET found == FoundDepartments(d, dep_detail.dept_id)
        modify_data == [ding_id |-> dep_detail.dept_id,
                        ding_parent_id |-> dep_detail.parent_id,
                        parent_id |-> parent_id,
                        manager_id |-> False]
    IN [d EXCEPT
          !.deps = IF found = {}
                   THEN Append(@, modify_data)
                   ELSE [i \in DOMAIN @ |->
                           IF i \in found THEN modify_data ELSE @[i]],
          !.log = Append(@, [kind |-> "department", by |-> p])]
DepartmentId(d, ding_id) ==
    LET found == FoundDepartments(d, ding_id)
    IN IF found = {} THEN False
       ELSE CHOOSE i \in found : \A j \in found : i <= j

\* employee.py lines 92-138, for the record `dep` and a user_list: each user's
\* employee is searched by unionid and written when found; the others are
\* created after the loop; the first leader becomes the department's manager.
\* (A job is found or created per user and a res.users with each employee:
\* they are written where the employee is.)
EmployeeData(d, dep, user) ==
    [ding_id |-> user.unionid,
     department_id |-> DepartmentId(d, user.main_dept),
     ding_department_ids |-> {dep},
     active |-> user.active]
WriteMembers(d, dep, user_list, p) ==
    LET known(u) == \E i \in DOMAIN d.emps : d.emps[i].ding_id = u.unionid
        LastOf(i) ==
            LET js == {j \in DOMAIN user_list :
                          user_list[j].unionid = d.emps[i].ding_id}
            IN IF js = {} THEN 0 ELSE CHOOSE j \in js : \A k \in js : k <= j
        written == [i \in DOMAIN d.emps |->
                      IF LastOf(i) = 0 THEN d.emps[i]
                      ELSE [EmployeeData(d, dep, user_list[LastOf(i)]) EXCEPT
                              !.ding_department_ids =
                                  d.emps[i].ding_department_ids \cup {dep}]]
        create_users == SelectSeq(user_list, LAMBDA u : ~known(u))
        created == [j \in DOMAIN create_users |->
                      EmployeeData(d, dep, create_users[j])]
        emps == written \o created
        leaders == {j \in DOMAIN user_list : user_list[j].leader = 1}
        manager_id ==
            IF leaders = {} THEN None
            ELSE user_list[CHOOSE j \in leaders : \A k \in leaders : j <= k].unionid
        managers == {i \in DOMAIN emps :
                        emps[i].ding_id = manager_id /\ emps[i].active}
    IN [d EXCEPT
          !.emps = emps,
          !.deps = IF leaders = {} THEN @
                   ELSE [@ EXCEPT ![dep].manager_id =
                           IF managers = {} THEN False
                           ELSE CHOOSE i \in managers :
                                   \A k \in managers : i <= k],
          !.log = Append(@, [kind |-> "members", by |-> p])]

\* sync_ding_department after the tree fetch (lines 61-98): the employees of
\* the fetched departments are written inactive, one _sync_dep coroutine is
\* made per top-level leaf, gather schedules them and the call suspends.
\* (From the return of get_ding_server_depart_tree to here the code runs
\* without an await; only the clock can step in between.)
SyncStart ==
    /\ pass.phase = "running"
    /\ result.status = "returned"
    /\ result.loop = "running"
    /\ <<>> \notin DOMAIN sframes
    /\ db' = Deactivate(db, cbLog)
    /\ stasks' = SyncTasks(<<>>, result.tree, False)
    /\ sframes' = (<<>> :> NewSyncFrame(Len(result.tree)))
    /\ ready' = ready \o SyncSchedules(<<>>, result.tree)
    /\ UNCHANGED <<dir, roots, tasks, frames, cbLog, result>>
    /\ UNCHANGED <<call, members, pass>>
    /\ UNCHANGED tokVars

\* The first step of a _sync_dep task: department_detail (line 69).
DepStart ==
    /\ HeadIs("sstart")
    /\ LET p == Head(ready).path
       IN stasks' = [stasks EXCEPT ![p] = SendOrExchange(@, "detail", Absent)]
    /\ ready' = Tail(ready)
    /\ UNCHANGED <<dir, roots, tasks, frames, cbLog, result>>
    /\ UNCHANGED <<call, members, db, sframes, pass>>
    /\ UNCHANGED tokVars

\* The response of a request in flight arrives: the loop queues the callback
\* that resumes the task.
SyncDeliver(p) ==
    /\ result.loop = "running"
    /\ p \in DOMAIN stasks
    /\ stasks[p].st \in {"wait_token", "wait_resp"}
    /\ stasks' = [stasks EXCEPT ![p].st = IF @ = "wait_token" THEN "token_ready"
                                                               ELSE "resp_ready"]
    /\ ready' = Append(ready, Ev("sresp", p))
    /\ UNCHANGED <<dir, roots, tasks, frames, cbLog, result>>
    /\ UNCHANGED <<call, members, db, sframes, pass>>
    /\ UNCHANGED tokVars

\* The task resumes with a gettoken response that check_response_error
\* refuses: the exception ends the task.
SyncTokenRaise ==
    /\ HeadIs("sresp")
    /\ LET p == Head(ready).path
       IN /\ stasks[p].st = "token_ready"
          /\ \E response \in TreeTokenResponses : check_response_error(response)
          /\ stasks' = [stasks EXCEPT ![p].st = "failed",
                                      ![p].raised_in = "exchange"]
          /\ ready' = Append(Tail(ready), Ev("scb", p))
    /\ UNCHANGED <<dir, roots, tasks, frames, cbLog, result>>
    /\ UNCHANGED <<call, members, db, sframes, pass>>
    /\ UNCHANGED tokVars

\* The task resumes with an accepted gettoken response: refresh_token saves
\* the token, latest_token reads it back and the request is sent.
SyncTokenSave ==
    /\ HeadIs("sresp")
    /\ LET p == Head(ready).path
       IN /\ stasks[p].st = "token_ready"
          /\ \E response \in TreeTokenResponses :
                /\ ~check_response_error(response)
                /\ store' = refresh_token_save(store, TreeKey,
                                               get_token_result(response), now)
                /\ issued' = Append(issued, TreeKey)
                /\ lastOk' = [lastOk EXCEPT ![TreeKey] =
                                [token |-> response.access_token,
                                 expires_at |-> now + response.expires_in]]
          /\ stasks' = [stasks EXCEPT ![p] = Sent(@)]
    /\ ready' = Tail(ready)
    /\ UNCHANGED now
    /\ UNCHANGED callerVars
    /\ UNCHANGED <<dir, roots, tasks, frames, cbLog, result>>
    /\ UNCHANGED <<call, members, db, sframes, pass>>

\* The task resumes with a department_detail response that
\* check_response_error refuses (line 232): the exception ends the task.
DetailRaise ==
    /\ HeadIs("sresp")
    /\ LET p == Head(ready).path
       IN /\ stasks[p].st = "resp_ready"
          /\ stasks[p].op = "detail"
          /\ \E response \in DetailResponses(p) : check_response_error(response)
          /\ stasks' = [stasks EXCEPT ![p].st = "failed",
                                      ![p].raised_in = "detail"]
          /\ ready' = Append(Tail(ready), Ev("scb", p))
    /\ UNCHANGED <<dir, roots, tasks, frames, cbLog, result>>
    /\ UNCHANGED <<call, members, db, sframes, pass>>
    /\ UNCHANGED tokVars

\* The task resumes with the department's detail: its hr.department is
\* created or written (lines 71-86) and sync_ding_user asks for the first
\* page of its members (employee.py line 82).
DetailOk ==
    /\ HeadIs("sresp")
    /\ LET p == Head(ready).path
       IN /\ stasks[p].st = "resp_ready"
          /\ stasks[p].op = "detail"
          /\ \E response \in DetailResponses(p) :
                /\ ~check_response_error(response)
                /\ LET dep_detail == response.result
                       d == UpsertDepartment(db, dep_detail,
                                             stasks[p].parent_id, p)
                   IN /\ db' = d
                      /\ stasks' = [stasks EXCEPT ![p] =
                            SendOrExchange(
                                [@ EXCEPT !.dep = DepartmentId(d, dep_detail.dept_id)],
                                "users", 0)]
    /\ ready' = Tail(ready)
    /\ UNCHANGED <<dir, roots, tasks, frames, cbLog, result>>
    /\ UNCHANGED <<call, members, sframes, pass>>
    /\ UNCHANGED tokVars

\* The task resumes with a department_users response that
\* check_response_error refuses (line 254): the exception leaves
\* sync_ding_user and ends the task.
UsersRaise ==
    /\ HeadIs("sresp")
    /\ LET p == Head(ready).path
       IN /\ stasks[p].st = "resp_ready"
          /\ stasks[p].op = "users"
          /\ \E response \in UsersResponses(p) : check_response_error(response)
          /\ stasks' = [stasks EXCEPT ![p].st = "failed",
                                      ![p].raised_in = "users"]
          /\ ready' = Append(Tail(ready), Ev("scb", p))
    /\ UNCHANGED <<dir, roots, tasks, frames, cbLog, result>>
    /\ UNCHANGED <<call, members, db, sframes, pass>>
    /\ UNCHANGED tokVars

\* The task resumes with a page that names a next_cursor: the list is added
\* to user_list and the next page is asked for (employee.py lines 84-90).
UsersMore ==
    /\ HeadIs("sresp")
    /\ LET p == Head(ready).path
       IN /\ stasks[p].st = "resp_ready"
          /\ stasks[p].op = "users"
          /\ \E response \in UsersResponses(p) :
                /\ ~check_response_error(response)
                /\ HasNextPage(response.result.next_cursor)
                /\ db' = AfterPage(db, stasks[p].dep, response.result, p)
                /\ stasks' = [stasks EXCEPT ![p] =
                      SendOrExchange(
                          [@ EXCEPT !.pages = Append(@, response.result),
                                    !.user_list = ExtendUserList(@, response.result)],
                          "users", response.result.next_cursor)]
    /\ ready' = Tail(ready)
    /\ UNCHANGED <<dir, roots, tasks, frames, cbLog, result>>
    /\ UNCHANGED <<call, members, sframes, pass>>
    /\ UNCHANGED tokVars

\* The task resumes with a page that names no next_cursor: the loop ends, the
\* employees are written (employee.py lines 92-138) and sync_ding_user
\* returns. A leaf with children makes their coroutines, gather schedules them
\* and the task suspends (lines 90-93); a leaf without children is done.
UsersLast ==
    /\ HeadIs("sresp")
    /\ LET p == Head(ready).path
       IN /\ stasks[p].st = "resp_ready"
          /\ stasks[p].op = "users"
          /\ \E response \in UsersResponses(p) :
                /\ ~check_response_error(response)
                /\ ~HasNextPage(response.result.next_cursor)
                /\ LET user_list == ExtendUserList(stasks[p].user_list,
                                                   response.result)
                       children == stasks[p].leaf.children
                       t == [stasks[p] EXCEPT
                               !.pages = Append(@, response.result),
                               !.user_list = user_list,
                               !.wrote = TRUE]
                   IN /\ db' = WriteMembers(db, stasks[p].dep, user_list, p)
                      /\ IF Len(children) > 0
                         THEN /\ stasks' =
                                    SyncTasks(p, children, stasks[p].dep) @@
                                    [stasks EXCEPT ![p] = [t EXCEPT !.st = "children"]]
                              /\ sframes' = (p :> NewSyncFrame(Len(children))) @@ sframes
                              /\ ready' = Tail(ready) \o SyncSchedules(p, children)
                         ELSE /\ stasks' = [stasks EXCEPT ![p] = [t EXCEPT !.st = "done"]]
                              /\ sframes' = sframes
                              /\ ready' = Append(Tail(ready), Ev("scb", p))
    /\ UNCHANGED <<dir, roots, tasks, frames, cbLog, result>>
    /\ UNCHANGED <<call, members, pass>>
    /\ UNCHANGED tokVars

\* gather's callback for a finished _sync_dep task.
SyncCallback ==
    /\ HeadIs("scb")
    /\ LET p == Head(ready).path
           f == Parent(p)
           n == sframes[f].nfinished + 1
       IN IF sframes[f].outer # "pending"
          THEN /\ sframes' = sframes
               /\ ready' = Tail(ready)
          ELSE IF GatherRaises(stasks[p].st)
          THEN /\ sframes' = [sframes EXCEPT ![f].outer = "exception"]
               /\ ready' = Append(Tail(ready), Ev("swake", f))
          ELSE IF GatherDone(n, sframes[f].n)
          THEN /\ sframes' = [sframes EXCEPT ![f].nfinished = n,
                                             ![f].outer = "result"]
               /\ ready' = Append(Tail(ready), Ev("swake", f))
          ELSE /\ sframes' = [sframes EXCEPT ![f].nfinished = n]
               /\ ready' = Tail(ready)
    /\ UNCHANGED <<dir, roots, tasks, frames, cbLog, result>>
    /\ UNCHANGED <<call, members, db, stasks, pass>>
    /\ UNCHANGED tokVars

\* A _sync_dep task resumes from the gather of its children (line 93): it is
\* done, or the exception of gather ends it.
SyncWake ==
    /\ HeadIs("swake")
    /\ LET f == Head(ready).path
       IN /\ f # <<>>
          /\ sframes' = [sframes EXCEPT ![f].resumed = TRUE]
          /\ stasks' = [stasks EXCEPT
                          ![f].st = IF sframes[f].outer = "result"
                                    THEN "done" ELSE "failed",
                          ![f].raised_in = IF sframes[f].outer = "result"
                                           THEN @ ELSE "gather"]
          /\ ready' = Append(Tail(ready), Ev("scb", f))
    /\ UNCHANGED <<dir, roots, tasks, frames, cbLog, result>>
    /\ UNCHANGED <<call, members, db, pass>>
    /\ UNCHANGED tokVars

\* sync_ding_department resumes from its gather (line 98) and returns or
\* raises; sync_ding_organization ends the pass in the same run.
SyncWakeRoot ==
    /\ HeadIs("swake")
    /\ Head(ready).path = <<>>
    /\ sframes' = [sframes EXCEPT ![<<>>].resumed = TRUE]
    /\ pass' = EndOfPass(pass, sframes[<<>>].outer = "exception")
    /\ db' = CursorExit(db, TRUE)
    /\ ready' = Tail(ready)
    /\ UNCHANGED <<dir, roots, tasks, frames, cbLog, result>>
    /\ UNCHANGED <<call, members, stasks>>
    /\ UNCHANGED tokVars

\* run_ding_sync starts a pass: sync_ding_organization calls get_auth_scopes
\* (app.py line 59).
PassStart ==
    /\ pass.phase = "idle"
    /\ pass' = [pass EXCEPT !.phase = "running"]
    /\ call' = StartedCall("get_auth_scopes", Absent)
    /\ UNCHANGED tokVars
    /\ UNCHANGED treeVars
    /\ UNCHANGED syncVars

\* ------------------------------------------------------ specifications

vars == <<now, store, issued, lastOk, pc, cur, last, ncalls,
          dir, roots, tasks, frames, ready, cbLog, result,
          call, members, db, stasks, sframes, pass>>

\* No tree fetch: the state of the tree variables under Spec.
TreeIdle ==
    /\ dir = [d \in Depts |-> <<>>]
    /\ roots = <<>>
    /\ tasks = <<>>
    /\ frames = <<>>
    /\ ready = <<>>
    /\ cbLog = <<>>
    /\ result = NoResult

\* No operation called, no sync pass: the state of the other variables.
NoPass == [phase |-> "idle", is_success |-> TRUE, logs |-> <<>>, ends |-> <<>>]
\* The database: the hr.department and hr.employee records by id, the
\* writes of the pass in order (which task made them), the records as they
\* were before the pass, and the number of writes committed (Absent: the
\* cursor of the pass is open).
NoDb ==
    [deps |-> <<>>, emps |-> <<>>, log |-> <<>>,
     before |-> [deps |-> <<>>, emps |-> <<>>], committed |-> Absent]

\* A database left by an earlier pass: the record of department 1 and four
\* employees: 111 and 121, whom the server lists in department 1, the first
\* inactive here; 999, of department 1 here and listed nowhere; and 998, of no
\* department and listed nowhere.
PreDeps ==
    <<[ding_id |-> 1, ding_parent_id |-> None, parent_id |-> False,
       manager_id |-> False]>>
PreEmps ==
    <<[ding_id |-> 111, department_id |-> 1, ding_department_ids |-> {1},
       active |-> FALSE],
      [ding_id |-> 121, department_id |-> 1, ding_department_ids |-> {1},
       active |-> TRUE],
      [ding_id |-> 999, department_id |-> 1, ding_department_ids |-> {1},
       active |-> TRUE],
      [ding_id |-> 998, department_id |-> False, ding_department_ids |-> {},
       active |-> TRUE]>>
PreDb ==
    [NoDb EXCEPT !.deps = PreDeps, !.emps = PreEmps,
                 !.before = [deps |-> PreDeps, emps |-> PreEmps]]
SyncIdle ==
    /\ members = <<>>
    /\ db = NoDb
    /\ stasks = <<>>
    /\ sframes = <<>>
ExtIdle ==
    /\ call = NoOpCall
    /\ SyncIdle
    /\ pass = NoPass

Init == TokInit /\ TreeIdle /\ ExtIdle

Next ==
    \/ \E c \in Callers, k \in AppKeys : LatestTokenStart(c, k)
    \/ \E c \in Callers : GetTokenRaise(c)
    \/ \E c \in Callers : GetTokenSave(c)
    \/ \E c \in Callers : LatestTokenReturn(c)
    \/ Tick

\* latest_token called by coroutines of their own, for two app keys.
Spec == Init /\ [][Next]_vars

\* The get_auth_scopes call of a pass, returned.
AuthScopesReturned ==
    [NoOpCall EXCEPT
       !.op = "get_auth_scopes", !.st = "returned", !.latest = 1,
       !.requests = <<BuildRequest("get_auth_scopes", 1, Absent)>>,
       !.response = [errcode |-> 0, code |-> Absent, result |-> 1],
       !.result = 1]

\* A tree fetch starts, as in sync_ding_organization, after get_auth_scopes
\* has left a token in the store of the app key; the token is usable until
\* the clock steps.
TreeInit ==
    /\ now = 0
    /\ store = [k \in AppKeys |->
                  IF k = TreeKey THEN [token |-> 1, expires_at |-> 1] ELSE NoCred]
    /\ lastOk = [k \in AppKeys |->
                  IF k = TreeKey THEN [token |-> 1, expires_at |-> 1] ELSE NoCred]
    /\ issued = <<TreeKey>>
    /\ pc = [c \in Callers |-> "idle"]
    /\ cur = [c \in Callers |-> NoCall]
    /\ last = [c \in Callers |-> NoCall]
    /\ ncalls = 0
    /\ dir \in Directories
    /\ roots \in RootLists
    /\ tasks = <<>>
    /\ frames = <<>>
    /\ ready = <<>>
    /\ cbLog = <<>>
    /\ result = NoResult
    /\ call = AuthScopesReturned
    /\ SyncIdle
    /\ pass = [NoPass EXCEPT !.phase = "running"]

TreeNext ==
    \/ StartTree
    \/ RunStart
    \/ \E p \in DOMAIN tasks : Deliver(p)
    \/ RunTokenRaise
    \/ RunTokenSave
    \/ RunSubRaise
    \/ RunSubLeaf
    \/ RunSubFanOut
    \/ RunCallback
    \/ RunWake
    \/ RunWakeRoot
    \/ Teardown
    \/ TreeTick

\* get_ding_server_depart_tree on one event loop.
TreeSpec == TreeInit /\ [][TreeNext]_vars

\* One iteration of the event loop: it runs the callback at the head of its
\* ready queue.
LoopStep ==
    \/ RunStart
    \/ RunTokenRaise
    \/ RunTokenSave
    \/ RunSubRaise
    \/ RunSubLeaf
    \/ RunSubFanOut
    \/ RunCallback
    \/ RunWake
    \/ RunWakeRoot

\* The same with a loop that keeps running its ready callbacks and a server
\* that answers every request in flight; the clock need not advance.
FairTreeSpec ==
    /\ TreeSpec
    /\ WF_vars(StartTree)
    /\ WF_vars(LoopStep)
    /\ WF_vars(\E p \in DOMAIN tasks : Deliver(p))

\* Calls of DingRequest operations, one after the other, on a store that is
\* empty or holds a token usable until the clock steps.
CallInit ==
    /\ now = 0
    /\ \E cred \in {NoCred, [token |-> 1, expires_at |-> 1]} :
          /\ store = [k \in AppKeys |-> IF k = TreeKey THEN cred ELSE NoCred]
          /\ lastOk = [k \in AppKeys |-> IF k = TreeKey THEN cred ELSE NoCred]
          /\ issued = IF cred = NoCred THEN <<>> ELSE <<TreeKey>>
    /\ pc = [c \in Callers |-> "idle"]
    /\ cur = [c \in Callers |-> NoCall]
    /\ last = [c \in Callers |-> NoCall]
    /\ ncalls = 0
    /\ TreeIdle
    /\ ExtIdle

CallNext ==
    \/ \E op \in Ops, ut \in UserTokens : CallStart(op, ut)
    \/ \E op \in ArgOps, args \in CallArgs : CallStartArgs(op, args)
    \/ \E to_users \in ToUsers, to_departments \in ToDepartments :
          SendDingMessage(to_users, to_departments)
    \/ CallTokenRaise
    \/ CallTokenSave
    \/ CallRaise
    \/ CallReturn
    \/ CallTick

CallSpec == CallInit /\ [][CallNext]_vars

\* The directory of the spec's example: A (1) has the children A1 (2) and
\* A2 (3), B (4) has none; the roots are [A, B].
FanOutDir == <<<<2, 3>>, <<>>, <<>>, <<>>>>
FanOutRoots == <<1, 4>>

FanOutInit ==
    /\ now = 0
    /\ store = [k \in AppKeys |->
                  IF k = TreeKey THEN [token |-> 1, expires_at |-> 1] ELSE NoCred]
    /\ lastOk = [k \in AppKeys |->
                  IF k = TreeKey THEN [token |-> 1, expires_at |-> 1] ELSE NoCred]
    /\ issued = <<TreeKey>>
    /\ pc = [c \in Callers |-> "idle"]
    /\ cur = [c \in Callers |-> NoCall]
    /\ last = [c \in Callers |-> NoCall]
    /\ ncalls = 0
    /\ dir = FanOutDir
    /\ roots = FanOutRoots
    /\ tasks = <<>>
    /\ frames = <<>>
    /\ ready = <<>>
    /\ cbLog = <<>>
    /\ result = NoResult
    /\ call = AuthScopesReturned
    /\ SyncIdle
    /\ pass = [NoPass EXCEPT !.phase = "running"]

\* get_ding_server_depart_tree([A, B]) on the directory of the example.

FanOutSpec == FanOutInit /\ [][TreeNext]_vars

\* A pass of sync_ding_organization over a directory of SyncDepts: the store
\* is empty or holds a token usable until the clock steps; the database is
\* empty or the one an earlier pass left; department 1 has its members on two
\* pages, the others on one.
PassMembers ==
    [d \in Depts |->
        IF d = 1 THEN <<PageOf(1, 1, 1, 1), PageOf(1, 2, 1, Absent)>>
        ELSE <<PageOf(d, 1, 1, Absent)>>]

PassInit ==
    /\ now = 0
    /\ \E cred \in {NoCred, [token |-> 1, expires_at |-> 1]} :
          /\ store = [k \in AppKeys |-> IF k = TreeKey THEN cred ELSE NoCred]
          /\ lastOk = [k \in AppKeys |-> IF k = TreeKey THEN cred ELSE NoCred]
          /\ issued = IF cred = NoCred THEN <<>> ELSE <<TreeKey>>
    /\ pc = [c \in Callers |-> "idle"]
    /\ cur = [c \in Callers |-> NoCall]
    /\ last = [c \in Callers |-> NoCall]
    /\ ncalls = 0
    /\ dir \in PassDirs
    /\ roots \in PassRoots
    /\ tasks = <<>>
    /\ frames = <<>>
    /\ ready = <<>>
    /\ cbLog = <<>>
    /\ result = NoResult
    /\ call = NoOpCall
    /\ members = PassMembers
    /\ db \in {NoDb, PreDb}
    /\ stasks = <<>>
    /\ sframes = <<>>
    /\ pass = NoPass

PassNext ==
    \/ PassStart
    \/ CallTokenRaise
    \/ CallTokenSave
    \/ CallRaise
    \/ CallReturn
    \/ StartTree
    \/ RunStart
    \/ \E p \in DOMAIN tasks : Deliver(p)
    \/ RunTokenRaise
    \/ RunTokenSave
    \/ RunSubRaise
    \/ RunSubLeaf
    \/ RunSubFanOut
    \/ RunCallback
    \/ RunWake
    \/ RunWakeRoot
    \/ SyncStart
    \/ DepStart
    \/ \E p \in DOMAIN stasks : SyncDeliver(p)
    \/ SyncTokenRaise
    \/ SyncTokenSave
    \/ DetailRaise
    \/ DetailOk
    \/ UsersRaise
    \/ UsersMore
    \/ UsersLast
    \/ SyncCallback
    \/ SyncWake
    \/ SyncWakeRoot
    \/ Teardown
    \/ TreeTick

\* sync_ding_organization under asyncio.run.
PassSpec == PassInit /\ [][PassNext]_vars

\* A pass over the directory where department 1 has the child 2, from the
\* root 1, for every listing the server may hold for department 1.
PageInit ==
    /\ now = 0
    /\ store = [k \in AppKeys |->
                  IF k = TreeKey THEN [token |-> 1, expires_at |-> 1] ELSE NoCred]
    /\ lastOk = [k \in AppKeys |->
                  IF k = TreeKey THEN [token |-> 1, expires_at |-> 1] ELSE NoCred]
    /\ issued = <<TreeKey>>
    /\ pc = [c \in Callers |-> "idle"]
    /\ cur = [c \in Callers |-> NoCall]
    /\ last = [c \in Callers |-> NoCall]
    /\ ncalls = 0
    /\ dir = [d \in Depts |-> IF d = 1 THEN <<2>> ELSE <<>>]
    /\ roots = <<1>>
    /\ tasks = <<>>
    /\ frames = <<>>
    /\ ready = <<>>
    /\ cbLog = <<>>
    /\ result = NoResult
    /\ call = NoOpCall
    /\ \E listing \in Listings(1) :
          members = [d \in Depts |->
                       IF d = 1 THEN listing ELSE <<PageOf(d, 1, 1, Absent)>>]
    /\ db = NoDb
    /\ stasks = <<>>
    /\ sframes = <<>>
    /\ pass = NoPass

PageSpec == PageInit /\ [][PassNext]_vars

\* ------------------------------------------------- claims on latest_token

\* The call records to judge: every completed call and every call in progress.
CallRecords == {last[c] : c \in Callers} \cup {cur[c] : c \in Callers}

\* The record's call found, at refresh_token's read, the credential its
\* caller's previous call had saved, before that credential's expiry.
AfterOwnExchange(r) ==
    /\ r.key # "none"
    /\ r.prevSaved # NoCred
    /\ r.startCred = r.prevSaved
    /\ r.start < r.prevSaved.expires_at

\* The record's call found a credential at or after its expires_at.
CalledAfterExpiry(r) ==
    /\ r.key # "none"
    /\ r.startCred.token # None
    /\ r.start >= r.startCred.expires_at

\* C1: two latest_token calls of one caller for one app key, made one after
\* the other, the second one finding the credential the first one saved with
\* its expiry not elapsed: the second call sends no gettoken request, so that
\* the two calls perform exactly one exchange (the first call's) in total, and
\* the second call does not raise.
C1_SecondCallServedFromCache ==
    \A r \in CallRecords :
        AfterOwnExchange(r) => /\ 1 + r.exch = 1
                               /\ r.outcome # "raised"

C1_Witness ==
    \E c \in Callers :
        /\ AfterOwnExchange(last[c])
        /\ last[c].outcome = "returned"
        /\ last[c].exch = 0
        /\ last[c].result = last[c].prevSaved.token

\* C2: a latest_token call made at or after the cached credential's
\* expires_at sends a gettoken request; when it returns it has saved a new
\* token first, and what it returns is not the expired token.
C2_RefreshAfterExpiry ==
    \A c \in Callers :
        /\ (pc[c] # "idle" /\ CalledAfterExpiry(cur[c])) =>
               /\ cur[c].exch = 1
               /\ pc[c] = "read" => /\ cur[c].saved.token # None
                                    /\ cur[c].saved.token # cur[c].startCred.token
        /\ CalledAfterExpiry(last[c]) =>
               /\ last[c].exch = 1
               /\ last[c].outcome = "returned" =>
                      /\ last[c].saved.token # None
                      /\ last[c].saved.token # last[c].startCred.token
                      /\ last[c].result # last[c].startCred.token

C2_Witness ==
    \E c \in Callers :
        /\ CalledAfterExpiry(last[c])
        /\ last[c].outcome = "returned"
        /\ last[c].exch = 1
        /\ last[c].result = last[c].saved.token
        /\ last[c].result # None

\* C3: whenever latest_token returns without raising, what it returns is a
\* present token (TokenStore.get() answers a token only while now < expires_at,
\* so a present token is a usable one); it never returns absent.
C3_ReturnsUsableToken ==
    \A c \in Callers :
        last[c].outcome = "returned" => last[c].result # None

\* C4: when gettoken answers a non-zero errcode, latest_token raises, nothing
\* is saved, and the step leaves every token store as it was.
C4_FailedExchangeLeavesCache ==
    [][\A c \in Callers :
          (pc[c] = "exchange" /\ pc'[c] # "exchange"
             /\ (IF pc'[c] = "read" THEN cur'[c].errcode ELSE last'[c].errcode) # 0)
          => /\ pc'[c] = "idle"
             /\ last'[c].outcome = "raised"
             /\ last'[c].saved = NoCred
             /\ store' = store
             /\ lastOk' = lastOk]_vars

C4_Witness ==
    \E c \in Callers :
        /\ last[c].outcome = "raised"
        /\ last[c].errcode # 0
        /\ last[c].startCred # NoCred
        /\ store[last[c].key] = last[c].startCred

\* C5: in every reachable state TokenStore.get() for an app key answers the
\* token of the last successful exchange saved for that key if there is one
\* and now < its expires_at (the clock at the save plus expires_in); before
\* the first successful exchange and at or after expiry it answers absent.
C5_GetIffSavedAndUnexpired ==
    \A k \in AppKeys :
        TokenGet(store, token_store(k), now) =
            IF lastOk[k] # NoCred /\ now < lastOk[k].expires_at
            THEN lastOk[k].token ELSE None

C5_Witness ==
    \E k \in AppKeys :
        /\ lastOk[k] # NoCred
        /\ now >= lastOk[k].expires_at
        /\ TokenGet(store, token_store(k), now) = None
        /\ \E j \in AppKeys : TokenGet(store, token_store(j), now) # None

\* C6: with latest_token calls for one app key overlapping on an empty or
\* expired cache, and no lock, the cache of every app key holds exactly the
\* (token, expiry) pair of the last save, never the token of one exchange with
\* the expiry of another, and every such call that returns, returns a token
\* that an exchange issued.
C6_LastWriterWins ==
    /\ \A k \in AppKeys : store[token_store(k)] = lastOk[k]
    /\ \A c \in Callers :
          (last[c].outcome = "returned" /\ last[c].exch = 1 /\ last[c].concurrent)
          => last[c].result \in 1..Len(issued)

C6_Witness ==
    \E c, d \in Callers :
        /\ c # d
        /\ last[c].key = last[d].key
        /\ last[c].concurrent /\ last[d].concurrent
        /\ last[c].exch = 1 /\ last[d].exch = 1
        /\ last[c].outcome = "returned" /\ last[d].outcome = "returned"
        /\ last[c].result # last[d].result
        /\ last[c].saved.expires_at # last[d].saved.expires_at
        /\ store[last[c].key] = last[d].saved
        /\ last[c].result = last[c].saved.token

\* C7: credentials are kept apart per app key: the store of app key K only
\* ever holds, and a caller for K only ever returns, a token issued by an
\* exchange made with K; and a step changes the store of K only when it is the
\* save of a caller for K.
IsolatedStores ==
    /\ \A k \in AppKeys :
          store[token_store(k)].token # None =>
              /\ store[token_store(k)].token \in 1..Len(issued)
              /\ issued[store[token_store(k)].token] = k
    /\ \A c \in Callers :
          (last[c].outcome = "returned" /\ last[c].result # None) =>
              /\ last[c].result \in 1..Len(issued)
              /\ issued[last[c].result] = last[c].key

SaveTouchesOwnKey ==
    \A k \in AppKeys :
        store'[k] # store[k] =>
            \E c \in Callers : /\ cur[c].key = k
                               /\ pc[c] = "exchange"
                               /\ pc'[c] = "read"

C7_PerKeyIsolation == []IsolatedStores /\ [][SaveTouchesOwnKey]_vars

C7_Witness ==
    \E c, d \in Callers :
        /\ last[c].key = "k1" /\ last[d].key = "k2"
        /\ last[c].outcome = "returned" /\ last[d].outcome = "returned"
        /\ last[c].result # None /\ last[d].result # None
        /\ store["k1"].token = last[c].result
        /\ store["k2"].token = last[d].result

\* ------------------------------------------- claims on the tree fetch

IdsOf(tree) == [i \in 1..Len(tree) |-> tree[i].id]
Count(s, x) == Cardinality({i \in DOMAIN s : s[i] = x})
SameBag(s, t) == Len(s) = Len(t) /\ \A x \in Depts : Count(s, x) = Count(t, x)

\* The forest has one node per id of ids, and the children of every node are
\* a forest for the sub-ids the directory answers for that node.
RECURSIVE MatchesDirectory(_, _)
MatchesDirectory(tree, ids) ==
    /\ SameBag(IdsOf(tree), ids)
    /\ \A i \in DOMAIN tree : MatchesDirectory(tree[i].children, dir[tree[i].id])

Siblings(f) == ChildPaths(f, Len(frames[f].dep_ids))
Finished(p) == tasks[p].st \in {"done", "failed"}

\* The task has sent its first request: department_listsubid, or gettoken when
\* latest_token found no usable token.
FirstRequestSent(p) ==
    \/ tasks[p].sent
    \/ tasks[p].nexch >= 1

\* C8: a successful get_ding_server_depart_tree returns a forest with exactly
\* one top-level node per requested root id, the children of each node being
\* exactly the nodes of the ids department_listsubid answered for it (none
\* missing, none twice), a node without sub-ids having no children.
C8_TreeMatchesDirectory ==
    result.status = "returned" => MatchesDirectory(result.tree, roots)

C8_Witness ==
    /\ result.status = "returned"
    /\ Len(result.tree) = 2
    /\ \E i, j \in DOMAIN result.tree :
          /\ Len(result.tree[i].children) = 1
          /\ result.tree[i].children[1].children = <<>>
          /\ result.tree[j].children = <<>>
    /\ MatchesDirectory(result.tree, roots)

\* C9: the top-level sequence get_ding_server_depart_tree returns is in the
\* order of the requested root ids, whatever the order in which the sub-id
\* requests complete.
C9_TopLevelInRootOrder ==
    result.status = "returned" => IdsOf(result.tree) = roots

\* C10 as claimed: at every level, the department_listsubid requests of all
\* siblings of one call are sent before the response of any of them is
\* processed, and the call resumes only after all of them have completed.
C10_AllIssuedThenAllJoined ==
    \A f \in DOMAIN frames :
        /\ \A p, q \in Siblings(f) : tasks[p].got => tasks[q].sent
        /\ frames[f].resumed => \A p \in Siblings(f) : Finished(p)

\* C10 as it holds: at every level, every sibling of one call has sent its
\* first request (department_listsubid, or gettoken when it found no usable
\* token) before a response of any of them is processed; the call returns its
\* tree only after all of them have completed and appended their node, and it
\* resumes before that only to raise the failure of one of them.
C10_AllStartedThenJoinedOrRaised ==
    \A f \in DOMAIN frames :
        /\ \A p, q \in Siblings(f) : tasks[p].answered => FirstRequestSent(q)
        /\ frames[f].resumed =>
              \/ /\ frames[f].outer = "result"
                 /\ \A p \in Siblings(f) : tasks[p].st = "done"
                 /\ Len(frames[f].tree) = Len(frames[f].dep_ids)
              \/ /\ frames[f].outer = "exception"
                 /\ \E p \in Siblings(f) : tasks[p].st = "failed"
        /\ (f = <<>> /\ result.status = "returned") =>
              \A p \in Siblings(f) : tasks[p].st = "done"

C10_Witness ==
    \E f \in DOMAIN frames :
        /\ frames[f].resumed
        /\ frames[f].outer = "exception"
        /\ \E p \in Siblings(f) :
              /\ ~Finished(p)
              /\ tasks[p].answered
              /\ ~tasks[p].got

\* ------------------------------------- claims on the fan-out of the fetch

\* The tasks of the example, by path: A is the first root and B the second,
\* A1 and A2 are the children of A.
TaskA == <<1>>
TaskB == <<2>>
TaskA1 == <<1, 1>>
TaskA2 == <<1, 2>>
Started(p) == p \in DOMAIN tasks

\* The listsubid request of the task is in flight: sent and not answered.
InFlight(p) == Started(p) /\ tasks[p].st = "wait_sub"
\* The listsubid response of the task has arrived.
Resolved(p) == Started(p) /\ (tasks[p].st = "sub_ready" \/ tasks[p].got)

\* No request was refused and no task had to exchange a token.
PlainRun ==
    \A p \in DOMAIN tasks : tasks[p].st # "failed" /\ tasks[p].nexch = 0

RequestsTo(op) == {i \in DOMAIN call.requests : call.requests[i].op = op}

\* C16: one call of an operation sends its endpoint request at most once and
\* makes at most one token exchange; when the exchange fails the operation
\* raises with the endpoint request never sent, when the endpoint request
\* fails it raises with that request sent once, and a call that has raised
\* sends nothing more.
C16_NoRetry ==
    /\ Cardinality(RequestsTo(call.op)) <= 1
    /\ Cardinality(RequestsTo("get_token")) <= 1
    /\ Len(call.requests) <= 2
    /\ (call.st = "raised" /\ call.raised_by = "exchange") =>
          /\ Len(call.requests) = 1
          /\ RequestsTo(call.op) = {}
    /\ (call.st = "raised" /\ call.raised_by = "endpoint") =>
          /\ Cardinality(RequestsTo(call.op)) = 1
          /\ call.requests[Len(call.requests)].op = call.op

C16_Witness ==
    /\ call.st = "raised"
    /\ call.raised_by = "endpoint"
    /\ call.op = "department_users"
    /\ Len(call.requests) = 2
    /\ call.requests[1].op = "get_token"

\* C18: every request of an operation that attaches the application token
\* carries it in one place, fixed by the base address: on the legacy base as
\* the access_token query parameter and not as a header, on the current base
\* in the x-acs-dingtalk-access-token header and not in the query; the value
\* is the one latest_token returned to the call. The requests of the other
\* operations, and gettoken, carry no application token.
C18_TokenInOnePlace ==
    \A i \in DOMAIN call.requests :
        LET r == call.requests[i]
        IN IF CallsLatestToken(r.op)
           THEN /\ call.latest # Absent
                /\ r.base = url_prefix =>
                      r.query_token = call.latest /\ r.header_token = Absent
                /\ r.base = new_api_url_prefix =>
                      r.header_token = call.latest /\ r.query_token = Absent
                /\ r.base \in {url_prefix, new_api_url_prefix}
           ELSE /\ r.query_token = Absent
                /\ r.header_token \in {Absent, call.user_access_token}

C18_Witness ==
    /\ call.st = "returned"
    /\ Len(call.requests) = 2
    /\ call.requests[1].op = "get_token"
    /\ call.requests[2].base = new_api_url_prefix
    /\ call.requests[2].header_token = call.latest
    /\ call.latest \in 1..Len(issued)

\* C19: an operation of the legacy family raises on its response exactly
\* when errcode # 0, one of the current family exactly when a code field is
\* present; when it raises it returns nothing, and otherwise it returns the
\* result fields of the response.
C19_FailureByFamilyShape ==
    /\ (call.st = "raised" /\ call.raised_by = "endpoint") =>
          /\ call.result = Absent
          /\ call.requests[Len(call.requests)].base = url_prefix =>
                call.response.errcode # 0
          /\ call.requests[Len(call.requests)].base = new_api_url_prefix =>
                call.response.code # Absent
    /\ call.st = "returned" =>
          /\ call.result = call.response.result
          /\ call.requests[Len(call.requests)].base = url_prefix =>
                call.response.errcode = 0
          /\ call.requests[Len(call.requests)].base = new_api_url_prefix =>
                call.response.code = Absent

C19_Witness ==
    /\ call.st = "returned"
    /\ call.op = "get_custom_oa_process_code"
    /\ call.response.errcode # 0
    /\ call.response.code = Absent
    /\ call.result = call.response.result

\* --------------------------------------------- claims on sync_ding_user

\* The lists of a sequence of pages, one after the other.
RECURSIVE Concat(_)
Concat(pages) ==
    IF pages = <<>> THEN <<>>
    ELSE Concat(SubSeq(pages, 1, Len(pages) - 1)) \o pages[Len(pages)].list

RECURSIVE SumOfSizes(_)
SumOfSizes(pages) ==
    IF pages = <<>> THEN 0
    ELSE SumOfSizes(Tail(pages)) + Len(Head(pages).list)

\* The calls of sync_ding_user: the _sync_dep tasks that have asked for a page.
UserCalls == {p \in DOMAIN stasks : stasks[p].asked # <<>>}

\* C14: the member list that sync_ding_user builds is the concatenation of the
\* lists of the pages the server returned, in page order, and as long as
\* their sizes together; the pages are the server's answers to cursor 0 and to
\* each next_cursor in turn; a page without next_cursor is the last page
\* received, no request follows it and the loop has ended; and the loop ends
\* on no other page.
C14_MemberListIsConcatenation ==
    \A p \in UserCalls :
        LET t == stasks[p]
            n == Len(t.pages)
        IN /\ t.user_list = Concat(t.pages)
           /\ Len(t.user_list) = SumOfSizes(t.pages)
           /\ t.asked[1] = 0
           /\ \A i \in 1..n : t.pages[i] = PageAt(t.leaf.id, t.asked[i])
           /\ \A i \in 1..n :
                  t.pages[i].next_cursor = Absent
                      => i = n /\ Len(t.asked) = n /\ t.wrote
           /\ t.wrote => n >= 1 /\ t.pages[n].next_cursor = Absent

\* Witness of C14: three pages of 2, 2 and 1 users were listed, and the list
\* of 5 users was written.
C14_Witness ==
    \E p \in UserCalls :
        /\ stasks[p].wrote
        /\ Len(stasks[p].pages) = 3
        /\ Len(stasks[p].pages[1].list) = 2
        /\ Len(stasks[p].pages[2].list) = 2
        /\ Len(stasks[p].pages[3].list) = 1
        /\ Len(stasks[p].user_list) = 5

\* A department_users request of the task is in flight: sent, and its
\* response has not arrived.
UsersInFlight(p) == stasks[p].st = "wait_resp" /\ stasks[p].op = "users"

\* Each request of a call but the first carries the next_cursor of the page
\* received before it, and at most one request of the call is unanswered.
CursorsFollowPages(p) ==
    LET t == stasks[p]
    IN /\ Len(t.asked) <= Len(t.pages) + 1
       /\ UsersInFlight(p) => Len(t.asked) = Len(t.pages) + 1
       /\ \A i \in 2..Len(t.asked) :
              /\ i - 1 <= Len(t.pages)
              /\ t.pages[i - 1].next_cursor = t.asked[i]

\* The ids of all the nodes of a forest.
RECURSIVE NodeIds(_)
NodeIds(tree) ==
    IF tree = <<>> THEN <<>>
    ELSE <<Head(tree).id>> \o NodeIds(Head(tree).children) \o NodeIds(Tail(tree))

PageFetchFailed(p) ==
    \/ stasks[p].raised_in = "users"
    \/ stasks[p].raised_in = "exchange" /\ stasks[p].op = "users"

\* The unionids of the listing the server holds for a department.
ListedIds(dept_id) ==
    UNION {{members[dept_id][i].list[j].unionid :
               j \in DOMAIN members[dept_id][i].list} :
           i \in DOMAIN members[dept_id]}

\* C17: when a page fetch of a sync_ding_user call failed, the _sync_dep task
\* has ended with the exception, the call has made no write (employee, user,
\* job, manager) whatever pages it had received, and, the department being at
\* no other node of the tree, no employee of its listing was created, those
\* of an earlier pass are as they were apart from the deactivation, and its
\* department record has no manager.
C17_FailedPageDiscardsListing ==
    \A p \in DOMAIN stasks :
        PageFetchFailed(p) =>
            /\ stasks[p].st = "failed"
            /\ ~stasks[p].wrote
            /\ \A k \in DOMAIN db.log :
                   db.log[k].kind = "members" => db.log[k].by # p
            /\ Count(NodeIds(result.tree), stasks[p].leaf.id) = 1 =>
                   /\ \A i \in DOMAIN db.emps :
                          db.emps[i].ding_id \in ListedIds(stasks[p].leaf.id) =>
                              /\ i \in DOMAIN db.before.emps
                              /\ db.emps[i] =
                                     [db.before.emps[i] EXCEPT !.active = FALSE]
                   /\ db.deps[stasks[p].dep].manager_id = False

\* Witness of C17: the fetch of the second page failed after the first page,
\* with a user, had been received.
C17_Witness ==
    \E p \in DOMAIN stasks :
        /\ stasks[p].raised_in = "users"
        /\ Len(stasks[p].pages) = 1
        /\ stasks[p].user_list # <<>>
        /\ Len(stasks[p].asked) = 2

\* ------------------------------------ claims on sync_ding_organization

\* An exception was raised in the try block of the pass: by get_auth_scopes,
\* by the tree fetch or by the gather of sync_ding_department.
RaisedDuringPass ==
    \/ call.st = "raised"
    \/ result.status = "raised"
    \/ /\ <<>> \in DOMAIN sframes
       /\ sframes[<<>>].resumed
       /\ sframes[<<>>].outer = "exception"

\* C20: a pass that has ended has created exactly one dingtalk.log record and
\* sent exactly one end notification, which reports 'failed' when an exception
\* was raised during the pass and 'success' otherwise; a pass that has not
\* ended has created and sent none, and no exception has been raised in it
\* (the exception ends the pass where it is caught, and goes no further); and
\* asyncio.run closes the loop of an ended pass only.
C20_OneLogOneNotification ==
    /\ pass.phase = "ended" =>
          /\ Len(pass.logs) = 1
          /\ Len(pass.ends) = 1
          /\ pass.ends[1].message = "failed" <=> RaisedDuringPass
          /\ pass.ends[1].message = "success" <=> ~RaisedDuringPass
          /\ pass.logs[1].detail = "sync failed, error" <=> RaisedDuringPass
          /\ pass.is_success <=> ~RaisedDuringPass
    /\ pass.phase # "ended" =>
          /\ pass.logs = <<>>
          /\ pass.ends = <<>>
          /\ ~RaisedDuringPass
    /\ result.loop = "closed" => pass.phase = "ended"

\* Witness of C20: a pass ended as failed, with its one log and its one
\* notification, by a _sync_dep failure after the tree fetch had returned, and
\* the loop is closed.
C20_Witness ==
    /\ pass.phase = "ended"
    /\ result.status = "returned"
    /\ <<>> \in DOMAIN sframes
    /\ sframes[<<>>].outer = "exception"
    /\ Len(pass.logs) = 1
    /\ Len(pass.ends) = 1
    /\ pass.ends[1].message = "failed"
    /\ result.loop = "closed"

\* ------------------------------------ claims on arguments and bodies

\* The requests of the call that went to its operation's endpoint.
OwnRequests == SelectSeq(call.requests, LAMBDA r : r.op = call.op)

\* What the caller of delete_custom_oa_template asked for, serialised.
CleanAsAsked(clean_running_task) ==
    IF clean_running_task = "True" THEN "true" ELSE "false"

\* C21: a delete_custom_oa_template request carries cleanRunningTask = true
\* exactly when the caller passed clean_running_task = True, and false
\* otherwise, so false for the default False.
C21_CleanRunningTaskAsAsked ==
    call.op = "delete_custom_oa_template" /\ OwnRequests # <<>> =>
        call.body.cleanRunningTask = CleanAsAsked(call.args.clean_running_task)

\* What the code does instead: only the str 'false' yields false.
C21_OnlyStrFalseSendsFalse ==
    call.op = "delete_custom_oa_template" /\ OwnRequests # <<>> =>
        (call.body.cleanRunningTask = "false"
            <=> call.args.clean_running_task = "'false'")

\* A selection is empty: an empty list, or not given.
NothingSelected(x) == x = PyNone \/ x = PyList(<<>>)

\* C22: send_ding_message with no user and no department selected raises the
\* UserError and sends nothing; with 'to_all_user' it sends to_all_user = True
\* and no userid_list; with a list of users it sends the comma-joined
\* userid_list and no to_all_user.
C22_SendDingMessageCases ==
    call.via = "send_ding_message" =>
        /\ NothingSelected(call.args.to_users)
               /\ NothingSelected(call.args.to_departments) =>
              call.raised_by = "UserError" /\ call.requests = <<>>
        /\ OwnRequests # <<>> /\ call.args.to_users = PyStr(<<"to_all_user">>) =>
              call.body.to_all_user = PyTrue /\ call.body.userid_list = PyNone
        /\ OwnRequests # <<>> /\ call.args.to_users.kind = "list" =>
              /\ call.body.userid_list = list_to_str(call.args.to_users)
              /\ call.body.to_all_user = PyNone

\* What the code does when nothing is selected: UserError for two empty
\* lists, TypeError when to_departments is not given; no request either way.
C22_NothingSelectedRaises ==
    /\ call.via = "send_ding_message"
    /\ NothingSelected(call.args.to_users)
    /\ NothingSelected(call.args.to_departments)
    => /\ call.requests = <<>>
       /\ call.st = "raised"
       /\ call.raised_by =
             IF call.args.to_departments = PyNone THEN "TypeError"
             ELSE "UserError"

\* C23: a call of department_detail or department_users with dept_id None,
\* or of execute_official_oa_task with a result other than 'agree' and
\* 'refuse', is raised by its assertion with no request sent and no token
\* read, and the step of the call leaves the credential store and the
\* exchanges as they were.
RequiredMissing(c) ==
    \/ c.op \in {"department_detail", "department_users"}
          /\ c.args.dept_id = None
    \/ c.op = "execute_official_oa_task"
          /\ c.args.result \notin {"agree", "refuse"}
C23_AssertionBeforeAnything ==
    [][RequiredMissing(call') /\ call' # call =>
          /\ call'.st = "raised"
          /\ call'.raised_by = "AssertionError"
          /\ call'.requests = <<>>
          /\ call'.latest = Absent
          /\ store' = store
          /\ issued' = issued]_vars

\* Witness of C23: department_users(None) raised by its assertion while the
\* store held no usable token.
C23_Witness ==
    /\ call.op = "department_users"
    /\ call.args.dept_id = None
    /\ call.raised_by = "AssertionError"
    /\ NeedsRefresh(refresh_token_get(store, TreeKey, now))

\* --------------------------------------- claims on sync_ding_department

\* The positions in the log of the writes of a kind made by a task.
WritesOf(kind, p) ==
    {k \in DOMAIN db.log : db.log[k].kind = kind /\ db.log[k].by = p}

\* C24: a task that has asked for its department's members has written the
\* department's record before; the members are written after the record; a
\* child task exists, and so can send its detail request, only after its
\* parent has written its record and its members, and the parent_id it
\* carries is the parent's record, which exists with the parent's ding_id.
C24_RecordThenMembersThenChildren ==
    \A p \in DOMAIN stasks :
        /\ stasks[p].op = "users" =>
               /\ WritesOf("department", p) # {}
               /\ stasks[p].dep \in DOMAIN db.deps
               /\ db.deps[stasks[p].dep].ding_id = stasks[p].leaf.id
        /\ \A m \in WritesOf("members", p) :
               \E k \in WritesOf("department", p) : k < m
        /\ stasks[p].wrote <=> WritesOf("members", p) # {}
        /\ Len(p) > 1 =>
               LET parent == stasks[Parent(p)]
               IN /\ parent.wrote
                  /\ WritesOf("department", Parent(p)) # {}
                  /\ WritesOf("members", Parent(p)) # {}
                  /\ \A k \in WritesOf("department", p) :
                         \A m \in WritesOf("members", Parent(p)) : m < k
                  /\ stasks[p].parent_id = parent.dep
                  /\ parent.dep \in DOMAIN db.deps
                  /\ db.deps[parent.dep].ding_id = parent.leaf.id

\* Witness of C24: the detail request of a child is in flight, its parent
\* having written its record and its members.
C24_Witness ==
    \E p \in DOMAIN stasks :
        /\ Len(p) > 1
        /\ stasks[p].op = "detail"
        /\ stasks[p].st = "wait_resp"
        /\ WritesOf("members", Parent(p)) # {}

\* C27: at most one hr.department record exists per department id.
C27_OneRecordPerDepartment ==
    \A i, j \in DOMAIN db.deps :
        db.deps[i].ding_id = db.deps[j].ding_id => i = j

\* Witness of C27: two tasks of the same department id, at two nodes of the
\* tree, have both written the department, into one record.
C27_Witness ==
    \E p, q \in DOMAIN stasks :
        /\ p # q
        /\ stasks[p].leaf.id = stasks[q].leaf.id
        /\ WritesOf("department", p) # {}
        /\ WritesOf("department", q) # {}
        /\ stasks[p].dep = stasks[q].dep

\* The pass has ended without error.
PassSucceeded == pass.phase = "ended" /\ pass.is_success

\* The departments the pass visited, and the users their listings returned.
Visited == Elems(NodeIds(result.tree))
ListedUsers ==
    UNION {UNION {Elems(members[d][i].list) : i \in DOMAIN members[d]} :
           d \in Visited}

\* The employee was linked to a visited department before the pass.
LinkedBefore(i) ==
    \E k \in db.before.emps[i].ding_department_ids :
        db.before.deps[k].ding_id \in Visited

\* C25: after a pass without error, every employee who was linked to a
\* visited department before the pass and whom no listing of a visited
\* department returned is inactive, and every user a listing returned has an
\* employee, whose active is the server's flag of the user.
C25_ActiveAsListed ==
    PassSucceeded =>
        /\ \A i \in DOMAIN db.before.emps :
               /\ LinkedBefore(i)
               /\ \A u \in ListedUsers : u.unionid # db.emps[i].ding_id
               => ~db.emps[i].active
        /\ \A u \in ListedUsers :
               /\ \E i \in DOMAIN db.emps : db.emps[i].ding_id = u.unionid
               /\ \A i \in DOMAIN db.emps :
                      db.emps[i].ding_id = u.unionid =>
                          db.emps[i].active = u.active

\* Witness of C25: a pass without error over department 1 found the
\* employees of an earlier pass: 999, listed nowhere, was active and is
\* inactive; 111 was inactive and is active as the server has it; 121 was
\* active and is inactive as the server has it; 998, of no department, is
\* still active.
C25_Witness ==
    /\ PassSucceeded
    /\ 1 \in Visited
    /\ db.before.emps = PreEmps
    /\ db.emps[1].active
    /\ ~db.emps[2].active
    /\ ~db.emps[3].active
    /\ db.emps[4].active

\* The record of the department id, and whether the pass synced it.
RecordOf(ding_id) ==
    CHOOSE i \in DOMAIN db.deps : db.deps[i].ding_id = ding_id
Synced(ding_id) == ding_id \in Visited

\* C28: after a pass without error, every synced department whose server
\* parent was synced too has the parent's record as parent_id, and only
\* departments whose server parent was not synced have parent_id False.
C28_ParentIsParentRecord ==
    PassSucceeded =>
        \A d \in Visited :
            LET rec == db.deps[RecordOf(d)]
            IN IF ServerParent(d) # None /\ Synced(ServerParent(d))
               THEN rec.parent_id = RecordOf(ServerParent(d))
               ELSE rec.parent_id = False

\* No department id occurs at two nodes of the fetched tree.
NoRepeatedNode ==
    \A i, j \in DOMAIN NodeIds(result.tree) :
        NodeIds(result.tree)[i] = NodeIds(result.tree)[j] => i = j

\* What holds of C28: when no department id occurs twice in the fetched
\* tree, every synced department carries its parent's record, and the roots
\* carry False.
C28_ParentRightWithoutRepeats ==
    NoRepeatedNode => C28_ParentIsParentRecord

\* The step ends the pass with a failure.
PassFails == pass.phase = "running" /\ pass'.phase = "ended" /\ ~pass'.is_success

\* The employee was linked to a department of the collected id list before
\* the pass, and no department lists it.
OnlyDeactivated(i) ==
    /\ \E k \in db.before.emps[i].ding_department_ids :
           db.before.deps[k].ding_id \in Elems(cbLog)
    /\ \A d \in SyncDepts : \A j \in DOMAIN members[d] :
           \A u \in Elems(members[d][j].list) :
               u.unionid # db.before.emps[i].ding_id

\* C29: the step in which a pass fails leaves every department and employee
\* record as the writes done so far made them, commits all of these writes
\* and adds the one failure log; when the deactivation had been done, it is
\* the first of the committed writes and the employees it alone touched are
\* still inactive.
C29_FailureKeepsWrites ==
    [][PassFails =>
          /\ db'.deps = db.deps
          /\ db'.emps = db.emps
          /\ db'.log = db.log
          /\ db'.committed = Len(db.log)
          /\ Len(pass'.logs) = 1
          /\ db.log # <<>> =>
                 /\ db.log[1].kind = "deactivate"
                 /\ \A i \in DOMAIN db.before.emps :
                        OnlyDeactivated(i) => ~db'.emps[i].active]_vars

\* Witness of C29: a pass over the records of an earlier pass has failed in
\* a _sync_dep task after the deactivation, a new department record and new
\* employees were written; all of it is committed, employee 999 is inactive,
\* and the log holds the failure.
C29_Witness ==
    /\ pass.phase = "ended"
    /\ ~pass.is_success
    /\ Len(pass.logs) = 1
    /\ db.before.emps = PreEmps
    /\ db.committed = Len(db.log)
    /\ Len(db.deps) > Len(db.before.deps)
    /\ Len(db.emps) > Len(db.before.emps)
    /\ ~db.emps[3].active
    /\ \E p \in DOMAIN stasks : stasks[p].raised_in = "detail"

\* The department ids of the tasks made so far, one per task.
TaskDeps(x) == Cardinality({p \in DOMAIN tasks : tasks[p].dep = x})

\* C26: for_in_callback has been invoked once for every _append_to_tree task
\* made and for nothing else, so before any request of the task; when
\* get_ding_server_depart_tree has returned, the ids collected are the ids of
\* the nodes of the returned forest, each as often as it is a node.
C26_CallbackOncePerNode ==
    /\ Len(cbLog) = Cardinality(DOMAIN tasks)
    /\ \A x \in Depts : Count(cbLog, x) = TaskDeps(x)
    /\ \A p \in DOMAIN tasks : tasks[p].nreq > 0 => Count(cbLog, tasks[p].dep) > 0
    /\ result.status = "returned" => SameBag(cbLog, NodeIds(result.tree))

\* Witness of C26: the call has returned a forest in which one department id
\* is at two nodes, and the callback got that id twice.
C26_Witness ==
    /\ result.status = "returned"
    /\ \E x \in Depts : Count(NodeIds(result.tree), x) = 2 /\ Count(cbLog, x) = 2
    /\ Len(cbLog) = 3

\* Every task made has sent exactly one department_listsubid request and is
\* done, there is one task per node of the returned forest, and the forest is
\* the whole of the directory under the roots.
FullTraversal ==
    /\ \A p \in DOMAIN tasks : tasks[p].nreq = 1 /\ tasks[p].st = "done"
    /\ Cardinality(DOMAIN tasks) = Len(NodeIds(result.tree))
    /\ MatchesDirectory(result.tree, roots)

\* C30: with every request answered and the loop running, the call ends:
\* it returns unless a request failed, and when it has returned it made one
\* department_listsubid request per node of a forest that is the whole of
\* the directory under the roots, whatever its depth and breadth.
C30_ReturnsAfterFullTraversal ==
    /\ [](result.status = "returned" => FullTraversal)
    /\ [](result.status = "raised" => \E p \in DOMAIN tasks : tasks[p].st = "failed")
    /\ <>(result.status \in {"returned", "raised"})

\* Witness of C30: the call has returned a chain of three departments, the
\* deepest directory of three, after three requests.
C30_Witness ==
    /\ result.status = "returned"
    /\ FullTraversal
    /\ Len(roots) = 1
    /\ Cardinality(DOMAIN tasks) = MaxDept
    /\ \E p \in DOMAIN tasks : Len(p) = MaxDept

====
